---- MODULE Spec2Model ----
(***************************************************************************)
(* Model of the supermarket agent: the cart / checkout tools of            *)
(* agent_langgraph_simple.py and the product search of                     *)
(* tools/db_vector_search.py.                                              *)
(*                                                                         *)
(* Text is modelled as a sequence of one-character strings.  A character   *)
(* outside ASCII is written as one element with an ASCII name:             *)
(*   "c_ced" (c cedilla), "a_til" (a tilde), "a_acu" "e_acu" "i_acu"       *)
(*   "u_acu" (acute accents), "C_CED" "A_TIL" "A_ACU" "E_ACU" (their upper *)
(*   case), "CHECK" (the white-heavy-check-mark emoji), "CROSS" (the cross  *)
(*   mark emoji).                                                          *)
(* Numbers with decimals are integers on a fixed scale: quantities in      *)
(* 1/QScale kg (or units), prices in cents.                                  *)
(***************************************************************************)
EXTENDS Integers, Sequences, FiniteSets, TLC

VARIABLES
    cart,        \* Redis cart store: phone -> sequence of items
    order_sent,  \* Redis order-sent marker: phone -> BOOLEAN
    orders,      \* requests received by the order API (pedidos), in order
    added,       \* history: per phone, the items add_item_tool stored
    fin,         \* per worker: the running finalizar_pedido_tool call
    nfin,        \* number of finalizar_pedido_tool calls started
    emptied,     \* history: per phone, a successful call emptied the cart
                 \* and add_item_tool was not called since
    fmt_in,      \* checkout line formatting: the cart item read
    fmt_out,     \* checkout line formatting: the payload line built
    enh_query,   \* query enhancement: the query (already trimmed)
    enh_out,     \* query enhancement: the enhanced query
    search,      \* the running search_products_vector call
    embed_calls, \* texts sent to the embedding service by the call
    index_calls, \* queries sent to the product index by the call
    rows_in,     \* result formatting: the rows given to _format_results
    rows_out,    \* result formatting: the text it returned
    ext,         \* row extraction: the row and what was extracted from it
    turn,        \* the running run_agent_langgraph call
    vec          \* the vectorization script: table, progress file, run

cartVars == <<cart, order_sent, orders, added, fin, nfin, emptied>>
fmtVars == <<fmt_in, fmt_out>>
enhVars == <<enh_query, enh_out>>
searchVars == <<search, embed_calls, index_calls>>
rowVars == <<rows_in, rows_out, ext>>
turnVars == <<turn>>
vecVars == <<vec>>

vars == <<cartVars, fmtVars, enhVars, searchVars, rowVars, turnVars, vecVars>>

----------------------------------------------------------------------------
(* Bounds *)

MaxAdds == 2        \* add_item_tool calls that reach the store
MaxFinalize == 2    \* finalizar_pedido_tool calls started

(* Scales *)
QScale == 10000     \* quantity 1.0 is QScale
MilliPerQ == 10     \* QScale / 1000 : quantity units per 0.001

Phones == {"5585001", "5585002"}
Workers == {"turn1", "turn2"}

----------------------------------------------------------------------------
(* Text helpers *)

RECURSIVE Digits(_)
\* str(n) for a natural number n
Digits(n) ==
    LET d == <<"0", "1", "2", "3", "4", "5", "6", "7", "8", "9">>
    IN  IF n < 10 THEN <<d[n + 1]>> ELSE Digits(n \div 10) \o <<d[(n % 10) + 1]>>

RECURSIVE ZeroPad(_, _)
ZeroPad(s, w) == IF Len(s) >= w THEN s ELSE ZeroPad(<<"0">> \o s, w)

\* f"{x:.3f}" for x = n / 1000
Format3f(n) == Digits(n \div 1000) \o <<".">> \o ZeroPad(Digits(n % 1000), 3)

\* f"{x:.2f}" for x = n / 100
Format2f(n) == Digits(n \div 100) \o <<".">> \o ZeroPad(Digits(n % 100), 2)

\* Rounding x / unit to an integer.  Python rounds the binary double, so a
\* value that is a decimal tie may go either way: both outcomes are kept.
RoundSet(x, unit) ==
    LET q == x \div unit
        r == x % unit
    IN  IF 2 * r < unit THEN {q}
        ELSE IF 2 * r > unit THEN {q + 1}
        ELSE {q, q + 1}

\* s.lower() on one character
LowerChar(c) ==
    LET up == <<"A", "B", "C", "D", "E", "F", "G", "H", "I", "J", "K", "L", "M",
                "N", "O", "P", "Q", "R", "S", "T", "U", "V", "W", "X", "Y", "Z",
                "C_CED", "A_TIL", "A_ACU", "E_ACU">>
        lo == <<"a", "b", "c", "d", "e", "f", "g", "h", "i", "j", "k", "l", "m",
                "n", "o", "p", "q", "r", "s", "t", "u", "v", "w", "x", "y", "z",
                "c_ced", "a_til", "a_acu", "e_acu">>
    IN  IF \E i \in 1..Len(up) : up[i] = c
        THEN lo[CHOOSE i \in 1..Len(up) : up[i] = c]
        ELSE c

Lower(s) == [i \in 1..Len(s) |-> LowerChar(s[i])]

\* Python's  sub in s
Contains(s, sub) ==
    \E i \in 0..(Len(s) - Len(sub)) :
        \A j \in 1..Len(sub) : s[i + j] = sub[j]

----------------------------------------------------------------------------
(* Checkout: building the order lines (finalizar_pedido_tool, step 2) *)

EMPTY_CART_MSG ==
    <<"CROSS", " ", "O", " ", "c", "a", "r", "r", "i", "n", "h", "o", " ",
    "e", "s", "t", "a_acu", " ", "v", "a", "z", "i", "o", "!", " ", "A", "d",
    "i", "c", "i", "o", "n", "e", " ", "i", "t", "e", "n", "s", " ", "a",
    "n", "t", "e", "s", " ", "d", "e", " ", "f", "i", "n", "a", "l", "i",
    "z", "a", "r", ".">>

PESO_PREFIX ==
    <<"P", "e", "s", "o", " ", "e", "s", "t", "i", "m", "a", "d", "o", ":",
    " ">>

PESO_MID ==
    <<"k", "g", " ", "(", "~", "R", "$">>

PESO_SUFFIX ==
    <<")", ".", " ", "P", "E", "S", "A", "R", " ", "p", "a", "r", "a", " ",
    "c", "o", "n", "f", "i", "r", "m", "a", "r", " ", "v", "a", "l", "o",
    "r", ".">>

\* obs_peso, for the weight rounded to peso/1000 kg and the value rounded
\* to valor/100
obs_peso(peso, valor) ==
    PESO_PREFIX \o Format3f(peso) \o PESO_MID \o Format2f(valor) \o PESO_SUFFIX

\* qtd_api_unitario without the "quantidade < 1" test
qtd_api_unitario_no_min(quantidade) ==
    IF quantidade % QScale # 0
    THEN 1
    ELSE quantidade \div QScale

\* The unit-tracked branch: the quantity sent for a product sold by unit
qtd_api_unitario(quantidade) ==
    IF quantidade < QScale \/ quantidade % QScale # 0
    THEN 1
    ELSE quantidade \div QScale

\* FormatItem with the generated note replacing the item's own note
FormatItem_note_replaced(item, peso, valor) ==
    IF item.unidades > 0
    THEN [nome_produto |-> item.produto,
          quantidade |-> item.unidades,
          preco_unitario |-> item.preco,
          observacao |-> obs_peso(peso, valor)]
    ELSE [nome_produto |-> item.produto,
          quantidade |-> qtd_api_unitario(item.quantidade),
          preco_unitario |-> item.preco,
          observacao |-> item.observacao]

\* One pass of the loop body: the payload line of a cart item.  peso and
\* valor are the outcomes of the two roundings.  Prices are whole cents, so
\* round(preco, 2) leaves them as they are.
FormatItem(item, peso, valor) ==
    IF item.unidades > 0
    THEN [nome_produto |-> item.produto,
          quantidade |-> item.unidades,
          preco_unitario |-> item.preco,
          observacao |-> IF item.observacao # <<>>
                         THEN item.observacao \o <<".", " ">> \o obs_peso(peso, valor)
                         ELSE obs_peso(peso, valor)]
    ELSE [nome_produto |-> item.produto,
          quantidade |-> qtd_api_unitario(item.quantidade),
          preco_unitario |-> item.preco,
          observacao |-> item.observacao]

\* The payload lines an item can produce
ItemLines(item) ==
    {FormatItem(item, peso, valor) :
        peso \in RoundSet(item.quantidade, MilliPerQ),
        valor \in RoundSet(item.preco * item.quantidade, QScale)}

RECURSIVE itens_formatados(_)
\* The payload line lists a cart can produce
itens_formatados(items) ==
    IF items = <<>> THEN {<<>>}
    ELSE {<<l>> \o rest : l \in ItemLines(Head(items)),
                          rest \in itens_formatados(Tail(items))}

\* Step 5: does the response of the order API indicate success
IsSuccess(result) ==
    Contains(Lower(result), <<"s", "u", "c", "e", "s", "s", "o">>)
    \/ Contains(result, <<"CHECK">>)

----------------------------------------------------------------------------
(* Cart and checkout state machine *)

\* Items the conversation adds in the concurrent model
CartItems ==
    { [produto |-> "tomate", quantidade |-> 4500, unidades |-> 3,
       observacao |-> <<>>, preco |-> 400],
      [produto |-> "arroz", quantidade |-> 20000, unidades |-> 0,
       observacao |-> <<"5", "k", "g">>, preco |-> 350] }

\* Responses of the order API
Responses ==
    { <<"CHECK", " ", "P", "e", "d", "i", "d", "o">>,
      <<"S", "U", "C", "E", "S", "S", "O">>,
      <<"CROSS", " ", "E", "r", "r", "o", " ", "5", "0", "0">> }

IdleFin ==
    [pc |-> "idle", telefone |-> "", items |-> <<>>, itens |-> <<>>,
     result |-> <<>>, ret |-> <<>>, pedidos_calls |-> 0,
     clear_calls |-> 0, mark_calls |-> 0, cleared |-> FALSE, marked |-> FALSE,
     after_success |-> FALSE]

NoItem ==
    [produto |-> "", quantidade |-> 0, unidades |-> 0, observacao |-> <<>>,
     preco |-> 0]

NoLine ==
    [nome_produto |-> "", quantidade |-> 0, preco_unitario |-> 0,
     observacao |-> <<>>]

\* search_products_vector not running
SearchIdle ==
    [pc |-> "idle", raw |-> <<>>, query |-> <<>>, enhanced_query |-> <<>>,
     results |-> <<>>,
     original |-> <<>>, words |-> <<>>, i |-> 0, word_sets |-> <<>>,
     best_results |-> <<>>, best_score |-> 0, ret |-> <<>>,
     conn_str |-> TRUE, raised |-> "none"]

\* _extract_ean_and_name not called yet
ExtIdle ==
    [done |-> FALSE, row |-> [text |-> <<>>, metadata |-> [kind |-> "none"]],
     ean |-> <<>>, nome |-> <<>>]

\* run_agent_langgraph not running
TurnIdle ==
    [pc |-> "idle", history_handler |-> FALSE, messages |-> <<>>,
     output |-> <<>>, error |-> <<>>, raised |-> FALSE, saved |-> "none"]

\* the vectorization script not running, no progress file, nothing stored
\* yet (progress_file is the number in the file, -1 when there is no file)
VecIdle ==
    [pc |-> "idle", script |-> "none", total |-> 0, progress_file |-> -1,
     start_offset |-> 0, processed |-> 0, errors |-> 0, batch_len |-> 0,
     uncommitted |-> 0, committed |-> 0, stray |-> 0, deleted |-> FALSE,
     stop |-> "none", prev_stop |-> "none", prev_committed |-> 0,
     runs |-> 0]

Init ==
    /\ cart = [p \in Phones |-> <<>>]
    /\ order_sent = [p \in Phones |-> FALSE]
    /\ orders = <<>>
    /\ added = [p \in Phones |-> <<>>]
    /\ fin = [w \in Workers |-> IdleFin]
    /\ nfin = 0
    /\ emptied = [p \in Phones |-> FALSE]
    /\ fmt_in = NoItem
    /\ fmt_out = NoLine
    /\ enh_query = <<>>
    /\ enh_out = <<>>
    /\ search = SearchIdle
    /\ embed_calls = <<>>
    /\ index_calls = <<>>
    /\ rows_in = <<>>
    /\ rows_out = <<>>
    /\ ext = ExtIdle
    /\ turn = TurnIdle
    /\ vec = VecIdle

(* The cart store and the order-sent marker (tools.redis_tools), as the
   keyed store of the design: what each call leaves in the store when the
   store is reached. *)
get_cart_items(telefone) == cart[telefone]

add_item_to_cart(telefone, item) == [cart EXCEPT ![telefone] = Append(@, item)]

clear_cart(telefone) == [cart EXCEPT ![telefone] = <<>>]

mark_order_sent(telefone) == [order_sent EXCEPT ![telefone] = TRUE]

RECURSIVE SumLen(_, _)
SumLen(f, S) ==
    IF S = {} THEN 0
    ELSE LET x == CHOOSE y \in S : TRUE IN Len(f[x]) + SumLen(f, S \ {x})

\* add_item_tool: one call of add_item_to_cart, which appends to the
\* customer's list or reports that the store could not be reached.
add_item_tool(telefone, item) ==
    /\ SumLen(added, Phones) < MaxAdds
    /\ \E stored \in BOOLEAN :
        IF stored
        THEN /\ cart' = add_item_to_cart(telefone, item)
             /\ added' = [added EXCEPT ![telefone] = Append(@, item)]
        ELSE UNCHANGED <<cart, added>>
    /\ emptied' = [emptied EXCEPT ![telefone] = FALSE]
    /\ UNCHANGED <<order_sent, orders, fin, nfin, fmtVars, enhVars, searchVars,
                 rowVars, turnVars, vecVars>>

\* after_get_cart_items without the empty-cart test
after_get_cart_items_no_test(items) == "pedidos"

\* "if not items: return ..." : where the call goes after reading the cart
after_get_cart_items(items) ==
    IF items = <<>> THEN "done" ELSE "pedidos"

\* finalizar_pedido_tool, steps 1-3: read the cart, return at once when it
\* is empty, otherwise build the payload.  Of the payload the phone and the
\* lines are kept; name, address, payment and note pass through unread.
finalizar_get_cart_items(w, telefone) ==
    /\ fin[w].pc = "idle"
    /\ nfin < MaxFinalize
    /\ nfin' = nfin + 1
    /\ LET items == get_cart_items(telefone)
           pc == after_get_cart_items(items)
       IN  \E itens \in itens_formatados(items) :
            fin' = [fin EXCEPT ![w] =
                IF pc = "done"
                THEN [IdleFin EXCEPT !.pc = pc, !.telefone = telefone,
                                     !.items = items, !.ret = EMPTY_CART_MSG,
                                     !.after_success = emptied[telefone]]
                ELSE [IdleFin EXCEPT !.pc = pc, !.telefone = telefone,
                                     !.items = items, !.itens = itens,
                                     !.after_success = emptied[telefone]]]
    /\ UNCHANGED <<cart, order_sent, orders, added, emptied, fmtVars, enhVars, searchVars,
                 rowVars, turnVars, vecVars>>

\* after_pedidos taking every response for a success
after_pedidos_any_response(result) == "clear_cart"

\* "if 'sucesso' in result.lower() or ... in result:" : where the call goes
\* after the order API answered
after_pedidos(result) ==
    IF IsSuccess(result) THEN "clear_cart" ELSE "done"

\* Step 4: submit the payload; the order API answers with a string.
finalizar_pedidos(w) ==
    /\ fin[w].pc = "pedidos"
    /\ \E result \in Responses :
        /\ orders' = Append(orders, [telefone |-> fin[w].telefone,
                                     itens |-> fin[w].itens,
                                     result |-> result])
        /\ fin' = [fin EXCEPT ![w] =
                IF after_pedidos(result) = "done"
                THEN [@ EXCEPT !.pc = "done", !.result = result,
                               !.ret = result, !.pedidos_calls = @ + 1]
                ELSE [@ EXCEPT !.pc = after_pedidos(result), !.result = result,
                               !.pedidos_calls = @ + 1]]
    /\ UNCHANGED <<cart, order_sent, added, nfin, emptied, fmtVars, enhVars, searchVars,
                 rowVars, turnVars, vecVars>>

\* Step 5, first call: clear_cart.  Its result is not looked at and no
\* exception is handled.
finalizar_clear_cart(w) ==
    /\ fin[w].pc = "clear_cart"
    /\ \/ /\ cart' = clear_cart(fin[w].telefone)
          /\ emptied' = [emptied EXCEPT ![fin[w].telefone] = TRUE]
          /\ fin' = [fin EXCEPT ![w] = [@ EXCEPT !.pc = "mark_order_sent",
                                    !.clear_calls = @ + 1, !.cleared = TRUE]]
       \/ \* the store reports that it could not be reached
          /\ fin' = [fin EXCEPT ![w] = [@ EXCEPT !.pc = "mark_order_sent",
                                    !.clear_calls = @ + 1]]
          /\ UNCHANGED <<cart, emptied>>
       \/ \* the store call raises
          /\ fin' = [fin EXCEPT ![w] = [@ EXCEPT !.pc = "failed",
                                    !.clear_calls = @ + 1]]
          /\ UNCHANGED <<cart, emptied>>
    /\ UNCHANGED <<order_sent, orders, added, nfin, fmtVars, enhVars, searchVars,
                 rowVars, turnVars, vecVars>>

\* Step 5, second call: mark_order_sent, then return the response.
finalizar_mark_order_sent(w) ==
    /\ fin[w].pc = "mark_order_sent"
    /\ \/ /\ order_sent' = mark_order_sent(fin[w].telefone)
          /\ fin' = [fin EXCEPT ![w] = [@ EXCEPT !.pc = "done",
                        !.mark_calls = @ + 1, !.marked = TRUE,
                        !.ret = fin[w].result]]
       \/ \* the store reports that it could not be reached
          /\ fin' = [fin EXCEPT ![w] = [@ EXCEPT !.pc = "done",
                        !.mark_calls = @ + 1, !.ret = fin[w].result]]
          /\ UNCHANGED order_sent
       \/ \* the store call raises
          /\ fin' = [fin EXCEPT ![w] = [@ EXCEPT !.pc = "failed",
                        !.mark_calls = @ + 1]]
          /\ UNCHANGED order_sent
    /\ UNCHANGED <<cart, orders, added, nfin, emptied, fmtVars, enhVars, searchVars,
                 rowVars, turnVars, vecVars>>

\* The tool call is over; the worker takes the next tool call.
finalizar_return(w) ==
    /\ fin[w].pc \in {"done", "failed"}
    /\ fin' = [fin EXCEPT ![w] = IdleFin]
    /\ UNCHANGED <<cart, order_sent, orders, added, nfin, emptied, fmtVars, enhVars, searchVars,
                 rowVars, turnVars, vecVars>>

Next ==
    \/ \E telefone \in Phones, item \in CartItems : add_item_tool(telefone, item)
    \/ \E w \in Workers, telefone \in Phones : finalizar_get_cart_items(w, telefone)
    \/ \E w \in Workers : finalizar_pedidos(w)
    \/ \E w \in Workers : finalizar_clear_cart(w)
    \/ \E w \in Workers : finalizar_mark_order_sent(w)
    \/ \E w \in Workers : finalizar_return(w)

Spec == Init /\ [][Next]_vars

TypeOK ==
    /\ \A p \in Phones : Len(cart[p]) <= MaxAdds
    /\ nfin \in 0..MaxFinalize
    /\ Len(orders) <= MaxFinalize

----------------------------------------------------------------------------
(* The loop body of finalizar_pedido_tool on its own, over a wide range of *)
(* cart items                                                              *)

MaxUnidades == 3    \* largest unit count of an item

Quantities == {0, 4500, 4504, 4505, 9996, 10000, 12345, 15000, 20000, 25000}
Prices == {0, 1, 350, 400, 1099}
Notes == { <<>>, <<"m", "a", "d", "u", "r", "o">> }

PayloadItems ==
    [produto : {"tomate"}, quantidade : Quantities, unidades : 0..MaxUnidades,
     observacao : Notes, preco : Prices]

\* for item in items: ... itens_formatados.append({...})
finalizar_loop_body ==
    /\ fmt_in = NoItem
    /\ \E item \in PayloadItems :
        /\ fmt_in' = item
        /\ fmt_out' \in ItemLines(item)
    /\ UNCHANGED <<cartVars, enhVars, searchVars,
                 rowVars, turnVars, vecVars>>

NextPayload == finalizar_loop_body

SpecPayload == Init /\ [][NextPayload]_vars

----------------------------------------------------------------------------
(* Query enhancement (search_products_vector, before the embedding call) *)

TERM_TRANSLATIONS ==
    << <<<<"a", "b", "s", "o", "r", "v", "e", "n", "t", "e">>,
          <<"a", "b", "s">>>>,
       <<<<"a", "c", "h", "o", "c", "o", "l", "a", "t", "a", "d", "o">>,
          <<"a", "c", "h", "o", "c">>>>,
       <<<<"r", "e", "f", "r", "i", "g", "e", "r", "a", "n", "t", "e">>,
          <<"r", "e", "f", "r", "i", "g">>>>,
       <<<<"a", "m", "a", "c", "i", "a", "n", "t", "e">>,
          <<"a", "m", "a", "c">>>>,
       <<<<"d", "e", "s", "o", "d", "o", "r", "a", "n", "t", "e">>,
          <<"d", "e", "s", "o", "d">>>>,
       <<<<"s", "h", "a", "m", "p", "o", "o">>,
          <<"s", "h">>>>,
       <<<<"c", "o", "n", "d", "i", "c", "i", "o", "n", "a", "d", "o", "r">>,
          <<"c", "o", "n", "d">>>>,
       <<<<"h", "o", "t", "d", "o", "g">>,
          <<"p", "a", "o", " ", "h", "o", "t", " ", "d", "o", "g", " ", "m", "a", "x", "p", "a", "e", "s">>>>,
       <<<<"c", "a", "c", "h", "o", "r", "r", "o", " ", "q", "u", "e", "n", "t", "e">>,
          <<"p", "a", "o", " ", "h", "o", "t", " ", "d", "o", "g", " ", "m", "a", "x", "p", "a", "e", "s">>>>,
       <<<<"c", "a", "c", "h", "o", "r", "r", "o", "-", "q", "u", "e", "n", "t", "e">>,
          <<"p", "a", "o", " ", "h", "o", "t", " ", "d", "o", "g", " ", "m", "a", "x", "p", "a", "e", "s">>>>,
       <<<<"m", "u", "s", "a", "r", "e", "l", "a">>,
          <<"q", "u", "e", "i", "j", "o", " ", "m", "u", "s", "s", "a", "r", "e", "l", "a">>>>,
       <<<<"m", "u", "c_ced", "a", "r", "e", "l", "a">>,
          <<"q", "u", "e", "i", "j", "o", " ", "m", "u", "s", "s", "a", "r", "e", "l", "a">>>>,
       <<<<"m", "u", "s", "s", "a", "r", "e", "l", "a">>,
          <<"q", "u", "e", "i", "j", "o", " ", "m", "u", "s", "s", "a", "r", "e", "l", "a">>>>,
       <<<<"p", "r", "e", "s", "u", "n", "t", "o">>,
          <<"p", "r", "e", "s", "u", "n", "t", "o", " ", "f", "a", "t", "i", "a", "d", "o">>>>,
       <<<<"c", "r", "e", "m", "e", " ", "c", "r", "a", "c", "k">>,
          <<"b", "o", "l", "a", "c", "h", "a", " ", "c", "r", "e", "a", "m", " ", "c", "r", "a", "c", "k", "e", "r">>>>,
       <<<<"c", "r", "e", "a", "m", " ", "c", "r", "a", "c", "k">>,
          <<"b", "o", "l", "a", "c", "h", "a", " ", "c", "r", "e", "a", "m", " ", "c", "r", "a", "c", "k", "e", "r">>>>,
       <<<<"c", "r", "a", "c", "k", "e", "r">>,
          <<"b", "o", "l", "a", "c", "h", "a", " ", "c", "r", "e", "a", "m", " ", "c", "r", "a", "c", "k", "e", "r">>>>,
       <<<<"g", "u", "a", "r", "a", "n", "a">>,
          <<"r", "e", "f", "r", "i", "g", " ", "g", "u", "a", "r", "a", "n", "a", " ", "a", "n", "t", "a", "r", "c", "t", "i", "c", "a">>>>,
       <<<<"c", "o", "c", "a", " ", "c", "o", "l", "a">>,
          <<"r", "e", "f", "r", "i", "g", " ", "c", "o", "c", "a", " ", "c", "o", "l", "a">>>>,
       <<<<"c", "o", "c", "a", "-", "c", "o", "l", "a">>,
          <<"r", "e", "f", "r", "i", "g", " ", "c", "o", "c", "a", " ", "c", "o", "l", "a">>>>,
       <<<<"f", "a", "n", "t", "a">>,
          <<"r", "e", "f", "r", "i", "g", " ", "f", "a", "n", "t", "a">>>>,
       <<<<"s", "p", "r", "i", "t", "e">>,
          <<"r", "e", "f", "r", "i", "g", " ", "s", "p", "r", "i", "t", "e">>>>,
       <<<<"a", "c_ced", "u_acu", "c", "a", "r">>,
          <<"a", "c", "u", "c", "a", "r", " ", "c", "r", "i", "s", "t", "a", "l">>>>,
       <<<<"a", "c_ced", "u", "c", "a", "r">>,
          <<"a", "c", "u", "c", "a", "r", " ", "c", "r", "i", "s", "t", "a", "l">>>>,
       <<<<"c", "a", "f", "e_acu">>,
          <<"c", "a", "f", "e">>>>,
       <<<<"m", "a", "c_ced", "a_til">>,
          <<"m", "a", "c", "a">>>>,
       <<<<"f", "e", "i", "j", "a_til", "o">>,
          <<"f", "e", "i", "j", "a", "o">>>> >>

HORTIFRUTI_KEYWORDS ==
    << <<"t", "o", "m", "a", "t", "e">>,
       <<"c", "e", "b", "o", "l", "a">>,
       <<"b", "a", "t", "a", "t", "a">>,
       <<"a", "l", "f", "a", "c", "e">>,
       <<"c", "e", "n", "o", "u", "r", "a">>,
       <<"p", "e", "p", "i", "n", "o">>,
       <<"p", "i", "m", "e", "n", "t", "a", "o">>,
       <<"a", "b", "o", "b", "o", "r", "a">>,
       <<"a", "b", "o", "b", "r", "i", "n", "h", "a">>,
       <<"b", "e", "r", "i", "n", "j", "e", "l", "a">>,
       <<"b", "e", "t", "e", "r", "r", "a", "b", "a">>,
       <<"b", "r", "o", "c", "o", "l", "i", "s">>,
       <<"c", "o", "u", "v", "e">>,
       <<"e", "s", "p", "i", "n", "a", "f", "r", "e">>,
       <<"r", "e", "p", "o", "l", "h", "o">>,
       <<"r", "u", "c", "u", "l", "a">>,
       <<"a", "g", "r", "i", "a", "o">>,
       <<"a", "l", "h", "o">>,
       <<"g", "e", "n", "g", "i", "b", "r", "e">>,
       <<"m", "a", "n", "d", "i", "o", "c", "a">>,
       <<"b", "a", "n", "a", "n", "a">>,
       <<"m", "a", "c", "a">>,
       <<"l", "a", "r", "a", "n", "j", "a">>,
       <<"l", "i", "m", "a", "o">>,
       <<"a", "b", "a", "c", "a", "x", "i">>,
       <<"m", "e", "l", "a", "n", "c", "i", "a">>,
       <<"m", "e", "l", "a", "o">>,
       <<"u", "v", "a">>,
       <<"m", "o", "r", "a", "n", "g", "o">>,
       <<"m", "a", "n", "g", "a">>,
       <<"m", "a", "m", "a", "o">>,
       <<"a", "b", "a", "c", "a", "t", "e">>,
       <<"g", "o", "i", "a", "b", "a">>,
       <<"p", "e", "r", "a">>,
       <<"p", "e", "s", "s", "e", "g", "o">>,
       <<"a", "m", "e", "i", "x", "a">>,
       <<"k", "i", "w", "i">>,
       <<"c", "o", "c", "o">>,
       <<"m", "a", "r", "a", "c", "u", "j", "a">>,
       <<"a", "c", "e", "r", "o", "l", "a">>,
       <<"c", "a", "j", "u">>,
       <<"p", "i", "t", "a", "n", "g", "a">>,
       <<"c", "h", "e", "i", "r", "o", " ", "v", "e", "r", "d", "e">>,
       <<"c", "o", "e", "n", "t", "r", "o">>,
       <<"s", "a", "l", "s", "a">>,
       <<"c", "e", "b", "o", "l", "i", "n", "h", "a">>,
       <<"h", "o", "r", "t", "e", "l", "a">>,
       <<"m", "a", "n", "j", "e", "r", "i", "c", "a", "o">>,
       <<"a", "l", "e", "c", "r", "i", "m">>,
       <<"t", "o", "m", "i", "l", "h", "o">>,
       <<"o", "r", "e", "g", "a", "n", "o">>,
       <<"l", "o", "u", "r", "o">>,
       <<"f", "r", "a", "n", "g", "o">>,
       <<"c", "a", "r", "n", "e">>,
       <<"p", "e", "i", "x", "e">>,
       <<"o", "v", "o">>,
       <<"l", "e", "i", "t", "e">>,
       <<"q", "u", "e", "i", "j", "o">>,
       <<"m", "a", "n", "t", "e", "i", "g", "a">>,
       <<"i", "o", "g", "u", "r", "t", "e">> >>

PROCESSED_TERMS ==
    << <<"d", "o", "c", "e">>,
       <<"s", "u", "c", "o">>,
       <<"m", "o", "l", "h", "o">>,
       <<"e", "x", "t", "r", "a", "t", "o">>,
       <<"p", "o", "l", "p", "a">>,
       <<"g", "e", "l", "e", "i", "a">>,
       <<"c", "o", "m", "p", "o", "t", "a">> >>


HINT_ACOUGUE ==
    <<" ", "a", "c_ced", "o", "u", "g", "u", "e", " ", "c", "a", "r", "n",
    "e", "s">>

HINT_LATICINIOS ==
    <<" ", "l", "a", "t", "i", "c", "i_acu", "n", "i", "o", "s">>

HINT_HORTIFRUTI ==
    <<" ", "h", "o", "r", "t", "i", "f", "r", "u", "t", "i", " ", "l", "e",
    "g", "u", "m", "e", "s", " ", "v", "e", "r", "d", "u", "r", "a", "s",
    " ", "f", "r", "u", "t", "a", "s">>

\* Index of the first entry of a list of terms that is a substring of s,
\* 0 when there is none:  for term in ...: if term in s: ...; break
FirstIn(terms, s) ==
    IF \E i \in 1..Len(terms) : Contains(s, terms[i])
    THEN CHOOSE i \in 1..Len(terms) :
            /\ Contains(s, terms[i])
            /\ \A j \in 1..(i - 1) : ~Contains(s, terms[j])
    ELSE 0

TranslationTerms == [i \in 1..Len(TERM_TRANSLATIONS) |-> TERM_TRANSLATIONS[i][1]]

\* The translation loop: the enhanced query after it (the value assigned
\* on line 129 is overwritten on line 131 before any use)
translated_query(query) ==
    LET i == FirstIn(TranslationTerms, Lower(query))
    IN  IF i = 0 THEN query
        ELSE TERM_TRANSLATIONS[i][2] \o <<" ">> \o query

\* is_processed without the processed-food terms
is_processed_never(query_lower) == FALSE

is_processed(query_lower) ==
    \E i \in 1..Len(PROCESSED_TERMS) : Contains(query_lower, PROCESSED_TERMS[i])

\* The text appended for a keyword
category_hint(keyword) ==
    IF keyword \in {<<"f", "r", "a", "n", "g", "o">>, <<"c", "a", "r", "n", "e">>,
                    <<"p", "e", "i", "x", "e">>}
    THEN HINT_ACOUGUE
    ELSE IF keyword \in {<<"o", "v", "o">>, <<"l", "e", "i", "t", "e">>,
                         <<"q", "u", "e", "i", "j", "o">>,
                         <<"m", "a", "n", "t", "e", "i", "g", "a">>,
                         <<"i", "o", "g", "u", "r", "t", "e">>}
    THEN HINT_LATICINIOS
    ELSE HINT_HORTIFRUTI

\* enhanced_query when the embedding is generated.  The category loop
\* assigns enhanced_query from query, whatever the translation loop left.
enhanced_query(query) ==
    LET query_lower == Lower(query)
        k == FirstIn(HORTIFRUTI_KEYWORDS, query_lower)
    IN  IF ~is_processed(query_lower) /\ k # 0
        THEN query \o category_hint(HORTIFRUTI_KEYWORDS[k])
        ELSE translated_query(query)

MaxQueryWords == 2     \* words of a query

Vocabulary ==
    { <<"t", "o", "m", "a", "t", "e">>,
      <<"T", "o", "m", "a", "t", "e">>,
      <<"T", "O", "M", "A", "T", "E">>,
      <<"f", "r", "a", "n", "g", "o">>,
      <<"l", "e", "i", "t", "e">>,
      <<"s", "u", "c", "o">>,
      <<"q", "u", "e", "i", "j", "o">>,
      <<"m", "u", "s", "s", "a", "r", "e", "l", "a">>,
      <<"r", "e", "f", "r", "i", "g", "e", "r", "a", "n", "t", "e">>,
      <<"g", "u", "a", "r", "a", "n", "a">>,
      <<"c", "h", "u", "v", "a">>,
      <<"a", "r", "r", "o", "z">>,
      <<"F", "E", "I", "J", "A_TIL", "O">>,
      <<"m", "a", "c_ced", "a_til">>,
      <<"C", "o", "c", "a", "-", "C", "o", "l", "a">>,
      <<"d", "e">> }

RECURSIVE JoinWords(_)
JoinWords(ws) ==
    IF Len(ws) = 1 THEN ws[1]
    ELSE ws[1] \o <<" ">> \o JoinWords(Tail(ws))

Queries ==
    {JoinWords(ws) : ws \in UNION {[1..n -> Vocabulary] : n \in 1..MaxQueryWords}}

\* lines 123-153 of search_products_vector on one query
enhance_query ==
    /\ enh_query = <<>>
    /\ \E query \in Queries :
        /\ enh_query' = query
        /\ enh_out' = enhanced_query(query)
    /\ UNCHANGED <<cartVars, fmtVars, searchVars,
                 rowVars, turnVars, vecVars>>

NextEnhance == enhance_query

SpecEnhance == Init /\ [][NextEnhance]_vars

----------------------------------------------------------------------------
(* Result rows and their formatting (_extract_ean_and_name, _format_results) *)

IsSpace(c) == c \in {" ", "\t", "\n"}

IsDigit(c) == c \in {"0", "1", "2", "3", "4", "5", "6", "7", "8", "9"}

\* text[i:] starts with lit
StartsAt(text, i, lit) ==
    /\ i + Len(lit) - 1 <= Len(text)
    /\ \A j \in 1..Len(lit) : text[i + j - 1] = lit[j]

\* first index >= i that is not whitespace (Len(text) + 1 at the end)
SkipSpaces(text, i) ==
    IF \E j \in i..Len(text) : ~IsSpace(text[j])
    THEN CHOOSE j \in i..Len(text) :
            ~IsSpace(text[j]) /\ \A k \in i..(j - 1) : IsSpace(text[k])
    ELSE Len(text) + 1

\* first index >= i whose character is in the set stop (Len(text) + 1 when
\* there is none): the end of a run of characters outside stop
RunEnd(text, i, stop) ==
    IF \E j \in i..Len(text) : text[j] \in stop
    THEN CHOOSE j \in i..Len(text) :
            text[j] \in stop /\ \A k \in i..(j - 1) : text[k] \notin stop
    ELSE Len(text) + 1

\* first index >= i that is not a digit
DigitsEnd(text, i) ==
    IF \E j \in i..Len(text) : ~IsDigit(text[j])
    THEN CHOOSE j \in i..Len(text) :
            ~IsDigit(text[j]) /\ \A k \in i..(j - 1) : IsDigit(text[k])
    ELSE Len(text) + 1

KEY_CODIGO_EAN ==
    <<"\"", "c", "o", "d", "i", "g", "o", "_", "e", "a", "n", "\"", ":">>

KEY_PRODUTO ==
    <<"\"", "p", "r", "o", "d", "u", "t", "o", "\"", ":">>

\* re.search(r'"codigo_ean":\s*"?(\d+)"?', text) tried at position i:
\* the digits captured, <<>> when the pattern does not match there
ean_match_at(text, i) ==
    IF ~StartsAt(text, i, KEY_CODIGO_EAN) THEN <<>>
    ELSE LET a == SkipSpaces(text, i + Len(KEY_CODIGO_EAN))
             b == IF a <= Len(text) /\ text[a] = "\"" THEN a + 1 ELSE a
             e == DigitsEnd(text, b)
         IN  SubSeq(text, b, e - 1)

\* group 1 of the leftmost match, <<>> when there is no match
ean_match(text) ==
    IF \E i \in 1..Len(text) : ean_match_at(text, i) # <<>>
    THEN ean_match_at(text, CHOOSE i \in 1..Len(text) :
            /\ ean_match_at(text, i) # <<>>
            /\ \A j \in 1..(i - 1) : ean_match_at(text, j) = <<>>)
    ELSE <<>>

\* re.search(r'"produto":\s*"([^"]+)"', text) tried at position i
nome_match_at(text, i) ==
    IF ~StartsAt(text, i, KEY_PRODUTO) THEN <<>>
    ELSE LET a == SkipSpaces(text, i + Len(KEY_PRODUTO))
             e == RunEnd(text, a + 1, {"\""})
         IN  IF a <= Len(text) /\ text[a] = "\"" /\ e <= Len(text) /\ e > a + 1
             THEN SubSeq(text, a + 1, e - 1)
             ELSE <<>>

nome_match(text) ==
    IF \E i \in 1..Len(text) : nome_match_at(text, i) # <<>>
    THEN nome_match_at(text, CHOOSE i \in 1..Len(text) :
            /\ nome_match_at(text, i) # <<>>
            /\ \A j \in 1..(i - 1) : nome_match_at(text, j) = <<>>)
    ELSE <<>>

NameLimit == 100    \* text[:100]

\* A metadata value is [kind |-> "dict", fields |-> f] with f a function
\* from key names to values, [kind |-> "json", ok |-> b, fields |-> f] for
\* a string (ok: json.loads accepts it and gives the dict f), or
\* [kind |-> "none"].  A value of a key is [int |-> n] or [str |-> s].
ValueStr(v) == IF "int" \in DOMAIN v THEN Digits(v.int) ELSE v.str

EmptyFields == [k \in {} |-> [str |-> <<>>]]

\* metadata after  if isinstance(metadata, str): try json.loads ...
metadata_dict(metadata) ==
    IF metadata.kind = "dict" THEN metadata.fields
    ELSE IF metadata.kind = "json" /\ metadata.ok THEN metadata.fields
    ELSE EmptyFields

\* d.get(k1, d.get(k2, "")) as text
GetEither(d, k1, k2) ==
    IF k1 \in DOMAIN d THEN ValueStr(d[k1])
    ELSE IF k2 \in DOMAIN d THEN ValueStr(d[k2])
    ELSE <<>>

_extract_ean_and_name(result) ==
    LET text == result.text
        d == metadata_dict(result.metadata)
        ean0 == IF DOMAIN d # {} THEN GetEither(d, "codigo_ean", "ean") ELSE <<>>
        nome0 == IF DOMAIN d # {} THEN GetEither(d, "produto", "nome") ELSE <<>>
        parse == ean0 = <<>> \/ nome0 = <<>>
        ean1 == IF parse /\ ean_match(text) # <<>> THEN ean_match(text) ELSE ean0
        nome1 == IF parse /\ nome_match(text) # <<>> THEN nome_match(text) ELSE nome0
        nome2 == IF nome1 = <<>> /\ text # <<>>
                 THEN SubSeq(text, 1, IF Len(text) < NameLimit THEN Len(text) ELSE NameLimit)
                 ELSE nome1
    IN  [ean |-> ean1, nome |-> nome2]

EANS_HEADER ==
    <<"E", "A", "N", "S", "_", "E", "N", "C", "O", "N", "T", "R", "A", "D",
    "O", "S", ":">>

NO_VALID_EAN_MSG ==
    <<"N", "e", "n", "h", "u", "m", " ", "p", "r", "o", "d", "u", "t", "o",
    " ", "c", "o", "m", " ", "E", "A", "N", " ", "v", "a_acu", "l", "i", "d",
    "o", " ", "e", "n", "c", "o", "n", "t", "r", "a", "d", "o", ".">>

\* the row is skipped whatever it has seen
skip_row_no_seen(ean, seen_eans) == ean = <<>>

\* line 305: if not ean or ean in seen_eans: continue
skip_row(ean, seen_eans) ==
    ean = <<>> \/ \E k \in 1..Len(seen_eans) : seen_eans[k] = ean

RECURSIVE format_lines(_, _, _)
\* The loop of _format_results over results[i..], with the EANs seen so far
\* (in order of first occurrence): the text of the lines appended
format_lines(results, i, seen_eans) ==
    IF i > Len(results) THEN <<>>
    ELSE LET en == _extract_ean_and_name(results[i])
             skip == skip_row(en.ean, seen_eans)
             seen == IF skip THEN seen_eans ELSE Append(seen_eans, en.ean)
         IN  (IF ~skip /\ en.nome # <<>>
              THEN <<"\n">> \o Digits(Len(seen)) \o <<")", " ">> \o en.ean
                     \o <<" ", "-", " ">> \o en.nome
              ELSE <<>>)
             \o format_lines(results, i + 1, seen)

\* _format_results without the test for a header with no line
_format_results_header_only(results) ==
    EANS_HEADER \o format_lines(results, 1, <<>>)

_format_results(results) ==
    LET body == format_lines(results, 1, <<>>)
    IN  IF body = <<>> THEN NO_VALID_EAN_MSG ELSE EANS_HEADER \o body

----------------------------------------------------------------------------
(* search_products_vector *)

NO_CONN_MSG ==
    <<"E", "r", "r", "o", ":", " ", "S", "t", "r", "i", "n", "g", " ", "d",
    "e", " ", "c", "o", "n", "e", "x", "a_til", "o", " ", "d", "o", " ", "b",
    "a", "n", "c", "o", " ", "v", "e", "t", "o", "r", "i", "a", "l", " ",
    "n", "a_til", "o", " ", "c", "o", "n", "f", "i", "g", "u", "r", "a", "d",
    "a", ".">>

NO_TERM_MSG ==
    <<"N", "e", "n", "h", "u", "m", " ", "t", "e", "r", "m", "o", " ", "d",
    "e", " ", "b", "u", "s", "c", "a", " ", "i", "n", "f", "o", "r", "m",
    "a", "d", "o", ".">>

NO_RESULTS_MSG ==
    <<"N", "e", "n", "h", "u", "m", " ", "p", "r", "o", "d", "u", "t", "o",
    " ", "e", "n", "c", "o", "n", "t", "r", "a", "d", "o", " ", "c", "o",
    "m", " ", "e", "s", "s", "e", " ", "t", "e", "r", "m", "o", ".">>

ERROR_PREFIX ==
    <<"E", "r", "r", "o", " ", "a", "o", " ", "b", "u", "s", "c", "a", "r",
    " ", "n", "o", " ", "b", "a", "n", "c", "o", " ", "v", "e", "t", "o",
    "r", "i", "a", "l", ":", " ">>

LIMIT_DEFAULT == 20            \* limit: int = 20
MIN_SCORE_THRESHOLD == 500     \* 0.50, scores in 1/1000
SCORE_MARGIN == 50             \* 0.05

STOP_WORDS ==
    { <<"d", "e">>,
      <<"d", "a">>,
      <<"d", "o">>,
      <<"p", "a", "r", "a">>,
      <<"c", "o", "m">>,
      <<"s", "e", "m">>,
      <<"u", "m">>,
      <<"u", "m", "a">>,
      <<"k", "g">>,
      <<"u", "n", "d">>,
      <<"p", "c", "t">> }

\* query.strip()
Strip(q) ==
    IF \A j \in 1..Len(q) : IsSpace(q[j]) THEN <<>>
    ELSE LET a == CHOOSE j \in 1..Len(q) :
                    ~IsSpace(q[j]) /\ \A k \in 1..(j - 1) : IsSpace(q[k])
             b == CHOOSE j \in 1..Len(q) :
                    ~IsSpace(q[j]) /\ \A k \in (j + 1)..Len(q) : IsSpace(q[k])
         IN  SubSeq(q, a, b)

RECURSIVE Split(_)
\* q.split()
Split(q) ==
    LET a == SkipSpaces(q, 1)
        b == RunEnd(q, a, {" ", "\t", "\n"})
    IN  IF a > Len(q) THEN <<>>
        ELSE <<SubSeq(q, a, b - 1)>> \o Split(SubSeq(q, b, Len(q)))

\* words = [w for w in query.lower().split() if len(w) >= 3 and w not in STOP_WORDS]
retry_words(query) ==
    SelectSeq(Split(Lower(query)), LAMBDA w : Len(w) >= 3 /\ w \notin STOP_WORDS)

\* results[0].get("similarity", 0)
top_score(results) == results[1].similarity

\* the rendering of the embedding of a text as a pgvector literal; the
\* embedding service is a function of the text
embedding_str(text) == <<"[", "embedding of ">> \o text \o <<"]">>

\* accepts without the margin
accepts_no_margin(word_results, best_score) ==
    /\ word_results # <<>>
    /\ top_score(word_results) > best_score

\* if word_results: ... if word_score > best_score + 0.05:
accepts(word_results, best_score) ==
    /\ word_results # <<>>
    /\ top_score(word_results) > best_score + SCORE_MARGIN

\* Rows the index returns
RowTomate(score) ==
    [text |-> <<"T", "O", "M", "A", "T", "E", " ", "K", "G">>,
     metadata |-> [kind |-> "dict",
                   fields |-> ("codigo_ean" :> [int |-> 789]
                               @@ "produto" :> [str |-> <<"T", "O", "M", "A", "T", "E", " ", "K", "G">>])],
     similarity |-> score]

RowTomateText(score) ==
    [text |-> <<"{", "\"", "c", "o", "d", "i", "g", "o", "_", "e", "a", "n", "\"", ":", " ", "7", "8", "9", ",", " ", "\"", "p", "r", "o", "d", "u", "t", "o", "\"", ":", " ", "\"", "T", "O", "M", "A", "T", "E", "\"", "}">>,
     metadata |-> [kind |-> "none"],
     similarity |-> score]

RowArroz(score) ==
    [text |-> <<>>,
     metadata |-> [kind |-> "json", ok |-> TRUE,
                   fields |-> ("ean" :> [str |-> <<"1", "2", "3">>]
                               @@ "nome" :> [str |-> <<"A", "R", "R", "O", "Z">>])],
     similarity |-> score]

RowNoEan(score) ==
    [text |-> <<"S", "E", "M", " ", "E", "A", "N">>,
     metadata |-> [kind |-> "json", ok |-> FALSE, fields |-> EmptyFields],
     similarity |-> score]

RowNoName(score) ==
    [text |-> <<>>,
     metadata |-> [kind |-> "dict",
                   fields |-> ("codigo_ean" :> [str |-> <<"4", "5", "6">>])],
     similarity |-> score]

RowNeither(score) ==
    [text |-> <<>>, metadata |-> [kind |-> "none"], similarity |-> score]

\* Result sets the index returns, each ordered by score
ResultSets ==
    { <<>>,
      <<RowTomate(620)>>,
      <<RowTomate(300), RowArroz(250)>>,
      <<RowArroz(350)>>,
      <<RowTomateText(351), RowTomate(340)>>,
      <<RowNoEan(400)>>,
      <<RowNoName(480), RowNoEan(100)>>,
      <<RowArroz(499), RowTomate(120)>> }

\* Queries the agent passes
SearchQueries ==
    { <<>>,
      <<" ", " ">>,
      <<"t", "o", "m", "a", "t", "e">>,
      <<" ", "S", "u", "c", "o", " ", "d", "e", " ", "c", "a", "j", "u", " ">>,
      <<"k", "g", " ", "d", "e">> }

\* _format_results on its own, over every short list of rows
MaxRows == 3

\* Rows with and without an identifier, with and without a name; two of
\* them share the identifier 789 under different names
FormatRows ==
    { RowTomate(620), RowTomateText(351), RowArroz(350), RowNoEan(400),
      RowNoName(480), RowNeither(100) }

RowLists == UNION { [1..n -> FormatRows] : n \in 0..MaxRows }

format_results ==
    /\ rows_out = <<>>
    /\ \E results \in RowLists :
        /\ rows_in' = results
        /\ rows_out' = _format_results(results)
    /\ UNCHANGED <<ext, cartVars, fmtVars, enhVars, searchVars, turnVars, vecVars>>

NextFormat == format_results

SpecFormat == Init /\ [][NextFormat]_vars

\* _extract_ean_and_name on its own, over rows whose metadata and text
\* supply or lack each field: the metadata is absent, a string json.loads
\* rejects, a dict or the JSON text of a dict; each of its keys is absent,
\* empty or filled; the text is empty, plain, carries one or both patterns,
\* or is longer than the name limit
ExtractRows ==
    LET eans == { [str |-> <<>>], [str |-> <<"4", "5", "6">>], [int |-> 789] }
        nomes == { [str |-> <<>>], [str |-> <<"A", "R", "R", "O", "Z">>] }
        keys == {"codigo_ean", "ean", "produto", "nome"}
        fields == { f \in UNION { [K -> eans \cup nomes] : K \in SUBSET keys } :
                     \A k \in DOMAIN f :
                        IF k \in {"codigo_ean", "ean"} THEN f[k] \in eans
                        ELSE f[k] \in nomes }
        metadata ==
            { [kind |-> "none"],
              [kind |-> "json", ok |-> FALSE, fields |-> EmptyFields] }
            \cup { [kind |-> "dict", fields |-> f] : f \in fields }
            \cup { [kind |-> "json", ok |-> TRUE, fields |-> f] : f \in fields }
        long == [i \in 1..(NameLimit + 5) |-> IF i % 2 = 0 THEN "x" ELSE "y"]
        texts ==
            { <<>>,
              <<"S", "E", "M", " ", "E", "A", "N">>,
              RowTomateText(0).text,
              <<"\"", "c", "o", "d", "i", "g", "o", "_", "e", "a", "n", "\"", ":", " ", "\"", "7", "8", "9", "\"">>,
              <<"\"", "p", "r", "o", "d", "u", "t", "o", "\"", ":", "\"", "T", "O", "M", "A", "T", "E", "\"">>,
              long }
    IN  { [text |-> t, metadata |-> md] : t \in texts, md \in metadata }

extract_row ==
    /\ ~ext.done
    /\ \E row \in ExtractRows :
        LET r == _extract_ean_and_name(row)
        IN  ext' = [done |-> TRUE, row |-> row, ean |-> r.ean, nome |-> r.nome]
    /\ UNCHANGED <<rows_in, rows_out, cartVars, fmtVars, enhVars, searchVars,
                 turnVars, vecVars>>

NextExtract == extract_row

SpecExtract == Init /\ [][NextExtract]_vars

\* str(e) of the exceptions of the embedding service and of the index
Exceptions == { <<>>, <<"t", "i", "m", "e", "o", "u", "t">> }

search_call_no_empty_test(q, conn_str_set) ==
    /\ search.pc = "idle"
    /\ search' =
        IF ~conn_str_set
        THEN [SearchIdle EXCEPT !.pc = "done", !.raw = q, !.ret = NO_CONN_MSG,
                                !.conn_str = FALSE]
        ELSE [SearchIdle EXCEPT !.pc = "embed", !.raw = q, !.query = Strip(q),
                                !.enhanced_query = enhanced_query(Strip(q))]
    /\ UNCHANGED <<embed_calls, index_calls, cartVars, fmtVars, enhVars,
                 rowVars, turnVars, vecVars>>

\* lines 62-155: configuration and query checks, enhancement
search_call(q, conn_str_set) ==
    /\ search.pc = "idle"
    /\ search' =
        IF ~conn_str_set
        THEN [SearchIdle EXCEPT !.pc = "done", !.raw = q, !.ret = NO_CONN_MSG,
                                !.conn_str = FALSE]
        ELSE IF Strip(q) = <<>>
        THEN [SearchIdle EXCEPT !.pc = "done", !.raw = q, !.ret = NO_TERM_MSG]
        ELSE [SearchIdle EXCEPT !.pc = "embed", !.raw = q, !.query = Strip(q),
                                !.enhanced_query = enhanced_query(Strip(q))]
    /\ UNCHANGED <<embed_calls, index_calls, cartVars, fmtVars, enhVars,
                 rowVars, turnVars, vecVars>>

search_raised_escapes(e) ==
    [search EXCEPT !.pc = "escaped", !.raised = search.pc]

\* except Exception as e: return f"Erro ao buscar no banco vetorial: {str(e)}"
\* (raised keeps the step at which the exception came)
search_raised(e) ==
    [search EXCEPT !.pc = "done", !.ret = ERROR_PREFIX \o e,
                   !.raised = search.pc]

\* line 159: query_embedding = _generate_embedding(enhanced_query)
search_embed ==
    /\ search.pc = "embed"
    /\ embed_calls' = Append(embed_calls, search.enhanced_query)
    /\ \/ search' = [search EXCEPT !.pc = "execute"]
       \/ \E e \in Exceptions : search' = search_raised(e)
    /\ UNCHANGED <<index_calls, cartVars, fmtVars, enhVars,
                 rowVars, turnVars, vecVars>>

\* after_execute without the threshold test
after_execute_always_retry(results, query) ==
    IF results # <<>> /\ Len(retry_words(query)) >= 1
    THEN "word_embed"
    ELSE "format"

\* where the call goes after the first query
after_execute(results, query) ==
    IF results # <<>> /\ top_score(results) < MIN_SCORE_THRESHOLD
          /\ Len(retry_words(query)) >= 1
    THEN "word_embed"
    ELSE "format"

\* lines 161-218: connect, run the fused query, decide on the retry
search_execute ==
    /\ search.pc = "execute"
    /\ \/ \E results \in ResultSets :
            /\ index_calls' = Append(index_calls,
                    [query_text |-> search.enhanced_query,
                     query_embedding |-> embedding_str(search.enhanced_query),
                     match_count |-> LIMIT_DEFAULT])
            /\ search' =
                IF after_execute(results, search.query) = "word_embed"
                THEN [search EXCEPT !.pc = "word_embed", !.results = results,
                            !.original = results,
                            !.words = retry_words(search.query), !.i = 1,
                            !.best_results = results,
                            !.best_score = top_score(results)]
                ELSE [search EXCEPT !.pc = "format", !.results = results,
                            !.original = results]
       \/ \* psycopg2.connect raises
          /\ \E e \in Exceptions : search' = search_raised(e)
          /\ UNCHANGED index_calls
       \/ \* cur.execute raises
          /\ \E e \in Exceptions : search' = search_raised(e)
          /\ index_calls' = Append(index_calls,
                    [query_text |-> search.enhanced_query,
                     query_embedding |-> embedding_str(search.enhanced_query),
                     match_count |-> LIMIT_DEFAULT])
    /\ UNCHANGED <<embed_calls, cartVars, fmtVars, enhVars,
                 rowVars, turnVars, vecVars>>

\* line 223: word_embedding = _generate_embedding(word)
search_word_embed ==
    /\ search.pc = "word_embed"
    /\ embed_calls' = Append(embed_calls, search.words[search.i])
    /\ \/ search' = [search EXCEPT !.pc = "word_execute"]
       \/ \E e \in Exceptions : search' = search_raised(e)
    /\ UNCHANGED <<index_calls, cartVars, fmtVars, enhVars,
                 rowVars, turnVars, vecVars>>

\* keep_best taking every non-empty set of a word
keep_best_latest(take, word_results, best_results) ==
    IF word_results # <<>> THEN word_results ELSE best_results

\* lines 232-234: best_results is replaced only when the word's set is accepted
keep_best(take, word_results, best_results) ==
    IF take THEN word_results ELSE best_results

\* lines 224-237: the query of one word and the comparison with the best
search_word_execute ==
    /\ search.pc = "word_execute"
    /\ index_calls' = Append(index_calls,
            [query_text |-> embedding_str(search.words[search.i]),
             query_embedding |-> embedding_str(search.words[search.i]),
             match_count |-> LIMIT_DEFAULT])
    /\ \/ \E word_results \in ResultSets :
            LET take == accepts(word_results, search.best_score)
                best == keep_best(take, word_results, search.best_results)
                last == search.i = Len(search.words)
            IN  search' = [search EXCEPT
                    !.pc = IF last THEN "format" ELSE "word_embed",
                    !.i = @ + 1,
                    !.word_sets = Append(@, word_results),
                    !.best_results = best,
                    !.best_score = IF take THEN top_score(word_results) ELSE @,
                    !.results = IF last THEN best ELSE @]
       \/ \E e \in Exceptions : search' = search_raised(e)
    /\ UNCHANGED <<embed_calls, cartVars, fmtVars, enhVars,
                 rowVars, turnVars, vecVars>>

\* the text returned for the final result set
search_result_text(results) ==
    IF results = <<>> THEN NO_RESULTS_MSG ELSE _format_results(results)

\* lines 239-243
search_format ==
    /\ search.pc = "format"
    /\ search' = [search EXCEPT !.pc = "done",
                                !.ret = search_result_text(search.results)]
    /\ UNCHANGED <<embed_calls, index_calls, cartVars, fmtVars, enhVars,
                 rowVars, turnVars, vecVars>>

\* the tool call is over
search_return ==
    /\ search.pc = "done"
    /\ search' = SearchIdle
    /\ embed_calls' = <<>>
    /\ index_calls' = <<>>
    /\ UNCHANGED <<cartVars, fmtVars, enhVars,
                 rowVars, turnVars, vecVars>>

NextSearch ==
    \/ \E q \in SearchQueries, conn_str_set \in BOOLEAN : search_call(q, conn_str_set)
    \/ search_embed
    \/ search_execute
    \/ search_word_embed
    \/ search_word_execute
    \/ search_format
    \/ search_return

SpecSearch == Init /\ [][NextSearch]_vars

----------------------------------------------------------------------------
(* run_agent_langgraph: the reply of a turn and its fallback *)

\* lines 452-482: the markers looked for in the content of a message
SIG ==
    [ ZERO_ITEM |->
        <<"0", " ", "i", "t", "e", "m">>,
      DISPONIVEIS |->
        <<"d", "i", "s", "p", "o", "n", "i_acu", "v", "e", "i", "s", " ",
        "a", "p", "o_acu", "s", " ", "f", "i", "l", "t", "r", "a", "g", "e",
        "m">>,
      EMPTY_LIST |->
        <<"[", "]">>,
      EANS |->
        <<"E", "A", "N", "S", "_", "E", "N", "C", "O", "N", "T", "R", "A",
        "D", "O", "S">>,
      NENHUM |->
        <<"N", "e", "n", "h", "u", "m", " ", "p", "r", "o", "d", "u", "t",
        "o", " ", "e", "n", "c", "o", "n", "t", "r", "a", "d", "o">>,
      NAO_ENCONTRADO |->
        <<"n", "a_til", "o", " ", "e", "n", "c", "o", "n", "t", "r", "a",
        "d", "o">>,
      PRODUTOS |->
        <<"P", "R", "O", "D", "U", "T", "O", "S", "_", "E", "N", "C", "O",
        "N", "T", "R", "A", "D", "O", "S", ":">>,
      NAO_ENCONTRADOS |->
        <<"N", "A_TIL", "O", "_", "E", "N", "C", "O", "N", "T", "R", "A",
        "D", "O", "S", ":">>,
      NAO_ENCONTRADOS_ASCII |->
        <<"N", "A", "O", "_", "E", "N", "C", "O", "N", "T", "R", "A", "D",
        "O", "S", ":">>,
      SUCESSO |->
        <<"CHECK", " ", "[", "B", "U", "S", "C", "A", " ", "L", "O", "T",
        "E", "]", " ", "S", "u", "c", "e", "s", "s", "o">> ]

\* lines 471, 484, 487: the literal parts of the patterns
\*   r"Sucesso com '([^']+)' \((R\$ [0-9.,]+)\)",  "• ",  "R$",  f"sucesso:{prod}:{preco}"
LIT ==
    [ SUCESSO_COM |->
        <<"S", "u", "c", "e", "s", "s", "o", " ", "c", "o", "m", " ", "'">>,
      SUCESSO_MID |->
        <<"'", " ", "(">>,
      PRICE_PREFIX |->
        <<"R", "$", " ">>,
      BULLET_PREFIX |->
        <<"BULLET", " ">>,
      REAIS |->
        <<"R", "$">>,
      SUCESSO_TAG |->
        <<"s", "u", "c", "e", "s", "s", "o", ":">> ]

\* lines 502-524 and 541: the texts of the replies
MSG ==
    [ VALORES |->
        <<"A", "q", "u", "i", " ", "e", "s", "t", "a_til", "o", " ", "o",
        "s", " ", "v", "a", "l", "o", "r", "e", "s", ":">>,
      NAO_ENCONTREI |->
        <<"\n", "N", "a_til", "o", " ", "e", "n", "c", "o", "n", "t", "r",
        "e", "i", ":", " ">>,
      ADICIONAR |->
        <<"Q", "u", "e", "r", " ", "q", "u", "e", " ", "e", "u", " ", "a",
        "d", "i", "c", "i", "o", "n", "e", " ", "a", "o", " ", "c", "a", "r",
        "r", "i", "n", "h", "o", "?">>,
      SEM_PRECOS |->
        <<"N", "a_til", "o", " ", "c", "o", "n", "s", "e", "g", "u", "i",
        " ", "o", "b", "t", "e", "r", " ", "o", "s", " ", "p", "r", "e",
        "c_ced", "o", "s", " ", "a", "g", "o", "r", "a", ".", " ", "P", "o",
        "d", "e", " ", "r", "e", "p", "e", "t", "i", "r", "?">>,
      TEMOS_PREFIX |->
        <<"N", "a_til", "o", " ", "t", "e", "m", "o", "s", " ", "e", "s",
        "s", "e", " ", "p", "r", "o", "d", "u", "t", "o", " ", "d", "i", "s",
        "p", "o", "n", "i_acu", "v", "e", "l", ".", " ", "T", "e", "m", "o",
        "s", ":", " ">>,
      TEMOS_SUFFIX |->
        <<".", " ", "Q", "u", "e", "r", " ", "a", "l", "g", "u", "m", " ",
        "d", "e", "s", "s", "e", "s", "?">>,
      SEM_ESTOQUE |->
        <<"N", "a_til", "o", " ", "t", "e", "m", "o", "s", " ", "e", "s",
        "s", "e", " ", "p", "r", "o", "d", "u", "t", "o", " ", "d", "i", "s",
        "p", "o", "n", "i_acu", "v", "e", "l", " ", "n", "o", " ", "m", "o",
        "m", "e", "n", "t", "o", ".", " ", "Q", "u", "e", "r", " ", "o", "u",
        "t", "r", "o", "?">>,
      NAO_ACHEI |->
        <<"N", "a_til", "o", " ", "a", "c", "h", "e", "i", " ", "e", "s",
        "s", "e", " ", "p", "r", "o", "d", "u", "t", "o", ".", " ", "P", "o",
        "d", "e", " ", "d", "e", "s", "c", "r", "e", "v", "e", "r", " ", "d",
        "e", " ", "o", "u", "t", "r", "a", " ", "f", "o", "r", "m", "a", "?">>,
      GENERICO |->
        <<"D", "e", "s", "c", "u", "l", "p", "e", ",", " ", "n", "a_til",
        "o", " ", "c", "o", "n", "s", "e", "g", "u", "i", " ", "p", "r", "o",
        "c", "e", "s", "s", "a", "r", " ", "s", "u", "a", " ", "s", "o", "l",
        "i", "c", "i", "t", "a", "c_ced", "a_til", "o", ".", " ", "P", "o",
        "d", "e", " ", "r", "e", "p", "e", "t", "i", "r", "?">>,
      TECNICO |->
        <<"T", "i", "v", "e", " ", "u", "m", " ", "p", "r", "o", "b", "l",
        "e", "m", "a", " ", "t", "e_acu", "c", "n", "i", "c", "o", ",", " ",
        "t", "e", "n", "t", "e", " ", "n", "o", "v", "a", "m", "e", "n", "t",
        "e", ".">> ]

IsUpper(c) ==
    c \in {"A", "B", "C", "D", "E", "F", "G", "H", "I", "J", "K", "L", "M",
           "N", "O", "P", "Q", "R", "S", "T", "U", "V", "W", "X", "Y", "Z"}

\* first index >= i whose character is outside the set allowed
SpanEnd(text, i, allowed) ==
    IF \E j \in i..Len(text) : text[j] \notin allowed
    THEN CHOOSE j \in i..Len(text) :
            text[j] \notin allowed /\ \A k \in i..(j - 1) : text[k] \in allowed
    ELSE Len(text) + 1

RECURSIVE SplitBy(_, _)
\* text.split(sep) for a one-character separator
SplitBy(text, sep) ==
    IF \E i \in 1..Len(text) : text[i] = sep
    THEN LET i == CHOOSE i \in 1..Len(text) :
                    text[i] = sep /\ \A j \in 1..(i - 1) : text[j] # sep
         IN  <<SubSeq(text, 1, i - 1)>> \o SplitBy(SubSeq(text, i + 1, Len(text)), sep)
    ELSE <<text>>

RECURSIVE Join(_, _)
\* sep.join(parts)
Join(parts, sep) ==
    IF parts = <<>> THEN <<>>
    ELSE IF Len(parts) = 1 THEN parts[1]
    ELSE parts[1] \o sep \o Join(Tail(parts), sep)

\* seq[:n]
Take(seq, n) == SubSeq(seq, 1, IF Len(seq) < n THEN Len(seq) ELSE n)

\* text.replace(" ", "")
RemoveSpaces(text) == SelectSeq(text, LAMBDA c : c # " ")

\* r'\d+\) \d+ - ([A-Z][^\n;]+)' tried at position i: where the match ends
\* (0: no match there) and the name captured
ean_line_at(text, i) ==
    LET d1 == DigitsEnd(text, i)
        j == d1 + 2
        d2 == DigitsEnd(text, j)
        k == d2 + 3
        e == RunEnd(text, k + 1, {"\n", ";"})
    IN  IF /\ d1 > i
           /\ StartsAt(text, d1, <<")", " ">>)
           /\ d2 > j
           /\ StartsAt(text, d2, <<" ", "-", " ">>)
           /\ k <= Len(text)
           /\ IsUpper(text[k])
           /\ e > k + 1
        THEN [end |-> e, name |-> SubSeq(text, k, e - 1)]
        ELSE [end |-> 0, name |-> <<>>]

RECURSIVE ean_names(_, _)
\* re.findall of the pattern in text[i..]
ean_names(text, i) ==
    IF i > Len(text) THEN <<>>
    ELSE LET m == ean_line_at(text, i)
         IN  IF m.end # 0 THEN <<m.name>> \o ean_names(text, m.end)
             ELSE ean_names(text, i + 1)

\* r"Sucesso com '([^']+)' \((R\$ [0-9.,]+)\)" tried at position i
sucesso_at(text, i) ==
    LET a == i + Len(LIT.SUCESSO_COM)
        e == RunEnd(text, a, {"'"})
        p == e + Len(LIT.SUCESSO_MID)
        n == p + Len(LIT.PRICE_PREFIX)
        f == SpanEnd(text, n, {"0", "1", "2", "3", "4", "5", "6", "7", "8",
                               "9", ".", ","})
    IN  IF /\ StartsAt(text, i, LIT.SUCESSO_COM)
           /\ e > a
           /\ StartsAt(text, e, LIT.SUCESSO_MID)
           /\ StartsAt(text, p, LIT.PRICE_PREFIX)
           /\ f > n
           /\ f <= Len(text)
           /\ text[f] = ")"
        THEN [ok |-> TRUE, prod |-> SubSeq(text, a, e - 1),
              preco |-> SubSeq(text, p, f - 1)]
        ELSE [ok |-> FALSE, prod |-> <<>>, preco |-> <<>>]

\* re.search: the leftmost match
sucesso_match(text) ==
    IF \E i \in 1..Len(text) : sucesso_at(text, i).ok
    THEN sucesso_at(text, CHOOSE i \in 1..Len(text) :
            /\ sucesso_at(text, i).ok
            /\ \A j \in 1..(i - 1) : ~sucesso_at(text, j).ok)
    ELSE [ok |-> FALSE, prod |-> <<>>, preco |-> <<>>]

\* lines 466-471: the price lines of a batch output
price_lines(content) ==
    LET stripped == [k \in 1..Len(SplitBy(content, "\n")) |->
                        Strip(SplitBy(content, "\n")[k])]
        kept == SelectSeq(stripped, LAMBDA ln :
                    /\ StartsAt(ln, 1, LIT.BULLET_PREFIX)
                    /\ \/ Contains(ln, LIT.REAIS)
                       \/ Contains(RemoveSpaces(ln), LIT.REAIS))
    IN  [k \in 1..Len(kept) |-> Strip(SubSeq(kept[k], 3, Len(kept[k])))]

\* lines 475-477: the names after the first colon
nao_encontrados_names(content) ==
    LET parte == Join(Tail(SplitBy(content, ":")), <<":">>)
        xs == [k \in 1..Len(SplitBy(parte, ",")) |-> Strip(SplitBy(parte, ",")[k])]
    IN  SelectSeq(xs, LAMBDA x : x # <<>>)

\* what the scan has collected (lines 443-446)
EmptyScan ==
    [tool_results |-> <<>>, produtos_encontrados |-> <<>>,
     precos_encontrados |-> <<>>, nao_encontrados_list |-> <<>>]

Signal(tag) == [tag |-> tag, r |-> <<>>]

\* lines 450-487: the body of the loop for one message content
scan_message(acc, content) ==
    IF \/ Contains(content, SIG.ZERO_ITEM)
       \/ Contains(content, SIG.DISPONIVEIS)
       \/ Contains(content, SIG.EMPTY_LIST)
    THEN [acc EXCEPT !.tool_results = Append(@, Signal("sem_estoque"))]
    ELSE IF Contains(content, SIG.EANS)
    THEN [acc EXCEPT !.tool_results = Append(@, Signal("ean_encontrado")),
                     !.produtos_encontrados = @ \o Take(ean_names(content, 1), 3)]
    ELSE IF \/ Contains(content, SIG.NENHUM)
            \/ Contains(Lower(content), SIG.NAO_ENCONTRADO)
    THEN [acc EXCEPT !.tool_results = Append(@, Signal("nao_encontrado"))]
    ELSE IF Contains(content, SIG.PRODUTOS)
    THEN [acc EXCEPT !.tool_results = Append(@, Signal("busca_lote_ok")),
                     !.precos_encontrados = @ \o price_lines(content)]
    ELSE IF \/ Contains(content, SIG.NAO_ENCONTRADOS)
            \/ Contains(content, SIG.NAO_ENCONTRADOS_ASCII)
    THEN [acc EXCEPT !.nao_encontrados_list = @ \o nao_encontrados_names(content)]
    ELSE IF Contains(content, SIG.SUCESSO) /\ sucesso_match(content).ok
    THEN [acc EXCEPT !.tool_results = Append(@,
            [tag |-> "sucesso",
             r |-> LIT.SUCESSO_TAG \o sucesso_match(content).prod \o <<":">>
                    \o sucesso_match(content).preco])]
    ELSE acc

RECURSIVE scan_messages(_, _, _)
\* line 448: for msg in result.get("messages", []); every message of the
\* result has a text content and is scanned, whatever its type
scan_messages(messages, i, acc) ==
    IF i > Len(messages) THEN acc
    ELSE scan_messages(messages, i + 1, scan_message(acc, messages[i].content))

\* lines 496-499: _, prod, preco = r.split(":", 2); f"{prod} - {preco}"
sucesso_item(r) ==
    LET parts == SplitBy(r, ":")
    IN  parts[2] \o <<" ", "-", " ">> \o Join(SubSeq(parts, 3, Len(parts)), <<":">>)

HasTag(acc, tag) ==
    \E k \in 1..Len(acc.tool_results) : acc.tool_results[k].tag = tag

\* line 490: the test of the success branch
success_rule(acc) ==
    \/ HasTag(acc, "sucesso")
    \/ HasTag(acc, "busca_lote_ok") /\ acc.precos_encontrados # <<>>

\* lines 491-509: the reply of the success branch
success_reply(acc) ==
    LET sucessos == SelectSeq(acc.tool_results, LAMBDA t : t.tag = "sucesso")
        itens_ok == acc.precos_encontrados
                    \o [k \in 1..Len(sucessos) |-> sucesso_item(sucessos[k].r)]
        bullets == [k \in 1..Len(itens_ok) |-> <<"*", " ">> \o itens_ok[k]]
        missing == IF acc.nao_encontrados_list # <<>>
                   THEN <<MSG.NAO_ENCONTREI
                            \o Join(acc.nao_encontrados_list, <<",", " ">>)
                            \o <<".">>>>
                   ELSE <<>>
    IN  IF itens_ok # <<>>
        THEN Join(<<MSG.VALORES>> \o bullets \o missing \o <<MSG.ADICIONAR>>,
                  <<"\n">>)
        ELSE MSG.SEM_PRECOS

\* lines 489-525: the reply chosen from what the scan collected
choose_reply(acc) ==
    IF success_rule(acc) THEN success_reply(acc)
    ELSE IF HasTag(acc, "sem_estoque")
    THEN IF acc.produtos_encontrados # <<>>
         THEN MSG.TEMOS_PREFIX
                \o Join(Take(acc.produtos_encontrados, 2), <<",", " ">>)
                \o MSG.TEMOS_SUFFIX
         ELSE MSG.SEM_ESTOQUE
    ELSE IF HasTag(acc, "nao_encontrado") THEN MSG.NAO_ACHEI
    ELSE MSG.GENERICO

\* lines 442-525: the fallback reply for the messages of the result
fallback_reply(messages) ==
    choose_reply(scan_messages(messages, 1, EmptyScan))

\* lines 409-425: an AI message whose text can be the reply
is_usable(msg) ==
    /\ msg.type = "ai"
    /\ ~msg.tool_calls
    /\ Strip(msg.content) # <<>>
    /\ Strip(msg.content)[1] \notin {"[", "{"}

\* lines 407-428: the text of the last usable AI message, "" when none
last_ai_text(messages) ==
    IF \E k \in 1..Len(messages) : is_usable(messages[k])
    THEN messages[CHOOSE k \in 1..Len(messages) :
            /\ is_usable(messages[k])
            /\ \A j \in (k + 1)..Len(messages) : ~is_usable(messages[j])].content
    ELSE <<>>

needs_fallback_never(output) == FALSE

\* line 431: if not output or not output.strip()
needs_fallback(output) == output = <<>> \/ Strip(output) = <<>>

\* lines 394-525: the reply for the result of the agent
agent_output(messages) ==
    IF needs_fallback(last_ai_text(messages)) THEN fallback_reply(messages)
    ELSE last_ai_text(messages)

\* Messages of an agent result: the customer message with the phone context
\* of line 350, AI messages (a tool call, a blank, structured data, a
\* text) and tool outputs with the markers of lines 452-482
MESSAGES ==
    [ HumanOi |->
        [type |-> "human", tool_calls |-> FALSE,
         content |->
            <<"[", "T", "E", "L", "E", "F", "O", "N", "E", "_", "C", "L",
            "I", "E", "N", "T", "E", ":", " ", "5", "5", "8", "5", "0", "0",
            "1", "]", "\n", "\n", "o", "i">>],
      HumanNaoEncontrado |->
        [type |-> "human", tool_calls |-> FALSE,
         content |->
            <<"[", "T", "E", "L", "E", "F", "O", "N", "E", "_", "C", "L",
            "I", "E", "N", "T", "E", ":", " ", "5", "5", "8", "5", "0", "0",
            "1", "]", "\n", "\n", "l", "e", "i", "t", "e", " ", "n", "a_til",
            "o", " ", "e", "n", "c", "o", "n", "t", "r", "a", "d", "o", "?">>],
      AiToolCall |->
        [type |-> "ai", tool_calls |-> TRUE,
         content |->
            <<>>],
      AiEmpty |->
        [type |-> "ai", tool_calls |-> FALSE,
         content |->
            <<" ">>],
      AiJson |->
        [type |-> "ai", tool_calls |-> FALSE,
         content |->
            <<"{", "\"", "a", "\"", ":", " ", "1", "}">>],
      AiText |->
        [type |-> "ai", tool_calls |-> FALSE,
         content |->
            <<"C", "l", "a", "r", "o", "!">>],
      ToolLote |->
        [type |-> "tool", tool_calls |-> FALSE,
         content |->
            <<"P", "R", "O", "D", "U", "T", "O", "S", "_", "E", "N", "C",
            "O", "N", "T", "R", "A", "D", "O", "S", ":", "\n", "BULLET", " ",
            "A", "r", "r", "o", "z", " ", "-", " ", "R", "$", " ", "5", ",",
            "0", "0", "\n", "BULLET", " ", "L", "e", "i", "t", "e", " ", "-",
            " ", "R", "$", " ", "4", ",", "9", "9">>],
      ToolLoteParcial |->
        [type |-> "tool", tool_calls |-> FALSE,
         content |->
            <<"P", "R", "O", "D", "U", "T", "O", "S", "_", "E", "N", "C",
            "O", "N", "T", "R", "A", "D", "O", "S", ":", "\n", "BULLET", " ",
            "A", "r", "r", "o", "z", " ", "-", " ", "R", "$", " ", "5", ",",
            "0", "0", "\n", "N", "A_TIL", "O", "_", "E", "N", "C", "O", "N",
            "T", "R", "A", "D", "O", "S", ":", " ", "c", "a", "v", "i", "a",
            "r">>],
      ToolLoteSemPreco |->
        [type |-> "tool", tool_calls |-> FALSE,
         content |->
            <<"P", "R", "O", "D", "U", "T", "O", "S", "_", "E", "N", "C",
            "O", "N", "T", "R", "A", "D", "O", "S", ":", "\n", "BULLET", " ",
            "A", "r", "r", "o", "z">>],
      ToolNaoEncontrados |->
        [type |-> "tool", tool_calls |-> FALSE,
         content |->
            <<"N", "A_TIL", "O", "_", "E", "N", "C", "O", "N", "T", "R", "A",
            "D", "O", "S", ":", " ", "c", "a", "v", "i", "a", "r", ",", " ",
            "t", "r", "u", "f", "a">>],
      ToolSucesso |->
        [type |-> "tool", tool_calls |-> FALSE,
         content |->
            <<"CHECK", " ", "[", "B", "U", "S", "C", "A", " ", "L", "O", "T",
            "E", "]", " ", "S", "u", "c", "e", "s", "s", "o", " ", "c", "o",
            "m", " ", "'", "L", "e", "i", "t", "e", "'", " ", "(", "R", "$",
            " ", "4", ".", "9", "9", ")">>],
      ToolSemEstoque |->
        [type |-> "tool", tool_calls |-> FALSE,
         content |->
            <<"[", "]">>],
      ToolEans |->
        [type |-> "tool", tool_calls |-> FALSE,
         content |->
            <<"E", "A", "N", "S", "_", "E", "N", "C", "O", "N", "T", "R",
            "A", "D", "O", "S", ":", "\n", "1", ")", " ", "7", "8", "9", " ",
            "-", " ", "T", "O", "M", "A", "T", "E", " ", "K", "G", "\n", "2",
            ")", " ", "1", "2", "3", " ", "-", " ", "A", "R", "R", "O", "Z",
            "\n", "3", ")", " ", "4", "5", "6", " ", "-", " ", "A", "L", "H",
            "O", "\n", "4", ")", " ", "7", " ", "-", " ", "U", "V", "A">>],
      ToolNenhum |->
        [type |-> "tool", tool_calls |-> FALSE,
         content |->
            <<"N", "e", "n", "h", "u", "m", " ", "p", "r", "o", "d", "u",
            "t", "o", " ", "e", "n", "c", "o", "n", "t", "r", "a", "d", "o",
            " ", "c", "o", "m", " ", "e", "s", "s", "e", " ", "t", "e", "r",
            "m", "o", ".">>] ]

MaxMessages == 2

\* The messages an agent result is made of
MessagePool == { MESSAGES[k] : k \in DOMAIN MESSAGES }

\* result["messages"] of agent.invoke
AgentResults == UNION { [1..n -> MessagePool] : n \in 0..MaxMessages }

\* lines 336-342: the user message goes to the history store; a failure is
\* logged and the turn goes on (history_handler is None when
\* get_session_history raised)
run_agent_start(history_handler) ==
    /\ turn.pc = "idle"
    /\ turn' = [TurnIdle EXCEPT !.pc = "invoke",
                                !.history_handler = history_handler]
    /\ UNCHANGED <<cartVars, fmtVars, enhVars, searchVars, rowVars, vecVars>>

\* lines 539-541: except Exception as e
agent_raised(e) ==
    [turn EXCEPT !.pc = "done", !.output = MSG.TECNICO, !.error = e,
                 !.raised = TRUE]

\* lines 344-527: the agent runs and the reply is taken from its result
agent_invoke ==
    /\ turn.pc = "invoke"
    /\ \/ \E messages \in AgentResults :
            turn' = [turn EXCEPT !.pc = "save", !.messages = messages,
                                 !.output = agent_output(messages)]
       \/ \E e \in Exceptions : turn' = agent_raised(e)
    /\ UNCHANGED <<cartVars, fmtVars, enhVars, searchVars, rowVars, vecVars>>

\* lines 530-537: the reply goes to the history store (a failure is logged)
\* and is returned
save_history ==
    /\ turn.pc = "save"
    /\ \/ /\ turn.history_handler
          /\ \E saved \in {"ok", "failed"} :
                turn' = [turn EXCEPT !.pc = "done", !.saved = saved]
       \/ /\ ~turn.history_handler
          /\ turn' = [turn EXCEPT !.pc = "done"]
    /\ UNCHANGED <<cartVars, fmtVars, enhVars, searchVars, rowVars, vecVars>>

\* the turn is over
turn_return ==
    /\ turn.pc = "done"
    /\ turn' = TurnIdle
    /\ UNCHANGED <<cartVars, fmtVars, enhVars, searchVars, rowVars, vecVars>>

NextTurn ==
    \/ \E history_handler \in BOOLEAN : run_agent_start(history_handler)
    \/ agent_invoke
    \/ save_history
    \/ turn_return

SpecTurn == Init /\ [][NextTurn]_vars

----------------------------------------------------------------------------
(* scripts/revetorize_products.py and scripts/vetorize_products_txt.py *)

BATCH_SIZE == 50    \* BATCH_SIZE = 50
MAX_ERRORS == 10    \* if errors > 10

MaxBatches == 3
MaxRuns == 2        \* how many times the script is run

Scripts == {"revetorize_products", "vetorize_products_txt"}

\* numbers of products: whole batches and a last batch that is not full
Totals == { BATCH_SIZE * k - r : k \in 1..MaxBatches, r \in {0, 20} }

\* get_last_processed_offset / get_last_processed: the number in the
\* progress file, 0 when the file cannot be read
get_last_processed_offset ==
    IF vec.progress_file < 0 THEN 0 ELSE vec.progress_file

\* main up to the loop: read the offset; vetorize_products_txt deletes the
\* table when the offset is 0
vec_main(script, total) ==
    /\ vec.pc = "idle"
    /\ vec.runs < MaxRuns
    /\ vec.script = "none" \/ (script = vec.script /\ total = vec.total)
    /\ LET start == get_last_processed_offset
       IN  vec' = [vec EXCEPT
                !.pc = "loop", !.script = script, !.total = total,
                !.start_offset = start, !.processed = start, !.errors = 0,
                !.batch_len = 0, !.uncommitted = 0,
                !.deleted = (script = "vetorize_products_txt" /\ start = 0),
                !.committed = IF start = 0 THEN 0 ELSE @,
                !.stray = IF start = 0 THEN 0 ELSE @,
                !.runs = @ + 1, !.stop = "none", !.prev_stop = vec.stop,
                !.prev_committed = vec.committed]
    /\ UNCHANGED <<cartVars, fmtVars, enhVars, searchVars, rowVars, turnVars>>

\* while processed < total
vec_while ==
    /\ vec.pc = "loop"
    /\ vec' = [vec EXCEPT
            !.pc = IF vec.processed < vec.total THEN "batch" ELSE "finish",
            !.batch_len = IF vec.total - vec.processed < BATCH_SIZE
                          THEN vec.total - vec.processed ELSE BATCH_SIZE]
    /\ UNCHANGED <<cartVars, fmtVars, enhVars, searchVars, rowVars, turnVars>>

\* except KeyboardInterrupt: save_progress(processed); return.  Leaving the
\* with block by return commits what the run executed and did not commit.
vec_keyboard(executed) ==
    [vec EXCEPT !.pc = "stopped", !.stop = "interrupt",
                !.progress_file = vec.processed,
                !.stray = @ + executed, !.uncommitted = 0]

\* except Exception: errors += 1; break when errors > 10, else sleep and
\* continue
vec_except ==
    [vec EXCEPT !.errors = @ + 1, !.uncommitted = 0,
                !.pc = IF vec.errors + 1 > MAX_ERRORS THEN "finish" ELSE "sleep"]

\* the batch: embeddings (generate_embeddings_batch raises after its
\* retries), then one UPDATE or INSERT per product
vec_batch ==
    /\ vec.pc = "batch"
    /\ \/ vec' = [vec EXCEPT !.pc = "commit", !.uncommitted = vec.batch_len]
       \/ vec' = vec_except
       \/ \E executed \in {0, 1} : vec' = vec_keyboard(executed)
    /\ UNCHANGED <<cartVars, fmtVars, enhVars, searchVars, rowVars, turnVars>>

\* conn.commit()
vec_commit ==
    /\ vec.pc = "commit"
    /\ \/ vec' = [vec EXCEPT !.pc = "count", !.committed = @ + vec.uncommitted,
                             !.uncommitted = 0]
       \/ vec' = vec_except
       \/ vec' = vec_keyboard(vec.uncommitted)
    /\ UNCHANGED <<cartVars, fmtVars, enhVars, searchVars, rowVars, turnVars>>

\* processed += len(batch)
vec_count ==
    /\ vec.pc = "count"
    /\ \/ vec' = [vec EXCEPT !.pc = "save", !.processed = @ + vec.batch_len]
       \/ vec' = vec_keyboard(0)
    /\ UNCHANGED <<cartVars, fmtVars, enhVars, searchVars, rowVars, turnVars>>

\* save_progress(processed), the progress line, time.sleep(0.3)
vec_save ==
    /\ vec.pc = "save"
    /\ \/ vec' = [vec EXCEPT !.pc = "loop", !.progress_file = vec.processed]
       \/ vec' = vec_keyboard(0)
    /\ UNCHANGED <<cartVars, fmtVars, enhVars, searchVars, rowVars, turnVars>>

\* time.sleep(2); continue.  An interrupt here is outside the try and ends
\* the run with the progress file as it is.
vec_sleep ==
    /\ vec.pc = "sleep"
    /\ \/ vec' = [vec EXCEPT !.pc = "loop"]
       \/ vec' = [vec EXCEPT !.pc = "stopped", !.stop = "killed"]
    /\ UNCHANGED <<cartVars, fmtVars, enhVars, searchVars, rowVars, turnVars>>

\* after the loop: the summary and os.remove(PROGRESS_FILE)
vec_finish ==
    /\ vec.pc = "finish"
    /\ vec' = [vec EXCEPT
            !.pc = "stopped", !.progress_file = -1,
            !.stop = IF vec.processed >= vec.total THEN "complete" ELSE "abort"]
    /\ UNCHANGED <<cartVars, fmtVars, enhVars, searchVars, rowVars, turnVars>>

\* the process has ended; the script can be run again
vec_exit ==
    /\ vec.pc = "stopped"
    /\ vec' = [vec EXCEPT !.pc = "idle"]
    /\ UNCHANGED <<cartVars, fmtVars, enhVars, searchVars, rowVars, turnVars>>

NextVec ==
    \/ \E script \in Scripts, total \in Totals : vec_main(script, total)
    \/ vec_while
    \/ vec_batch
    \/ vec_commit
    \/ vec_count
    \/ vec_save
    \/ vec_sleep
    \/ vec_finish
    \/ vec_exit

SpecVec == Init /\ [][NextVec]_vars

----------------------------------------------------------------------------
(* Claims about the query enhancement *)

\* C7: whenever a key of the translation table is a substring of the
\* lowercased query, the enhanced query is the abbreviation of the first
\* such key, a space and the query; no category hint is applied.
C7_TranslationWins ==
    enh_query # <<>> =>
        \A i \in 1..Len(TERM_TRANSLATIONS) :
            (/\ Contains(Lower(enh_query), TERM_TRANSLATIONS[i][1])
             /\ \A j \in 1..(i - 1) :
                    ~Contains(Lower(enh_query), TERM_TRANSLATIONS[j][1]))
            => enh_out = TERM_TRANSLATIONS[i][2] \o <<" ">> \o enh_query

NoTranslationMatches(q) ==
    \A i \in 1..Len(TERM_TRANSLATIONS) : ~Contains(Lower(q), TERM_TRANSLATIONS[i][1])

HasProcessedTerm(q) ==
    \E t \in { <<"d", "o", "c", "e">>,
               <<"s", "u", "c", "o">>,
               <<"m", "o", "l", "h", "o">>,
               <<"e", "x", "t", "r", "a", "t", "o">>,
               <<"p", "o", "l", "p", "a">>,
               <<"g", "e", "l", "e", "i", "a">>,
               <<"c", "o", "m", "p", "o", "t", "a">> } :
        Contains(Lower(q), t)

HintOfKeyword(kw) ==
    IF kw \in { <<"f", "r", "a", "n", "g", "o">>, <<"c", "a", "r", "n", "e">>, <<"p", "e", "i", "x", "e">> }
    THEN <<"a", "c_ced", "o", "u", "g", "u", "e", " ", "c", "a", "r", "n", "e", "s">>
    ELSE IF kw \in { <<"o", "v", "o">>,
                     <<"l", "e", "i", "t", "e">>,
                     <<"q", "u", "e", "i", "j", "o">>,
                     <<"m", "a", "n", "t", "e", "i", "g", "a">>,
                     <<"i", "o", "g", "u", "r", "t", "e">> }
    THEN <<"l", "a", "t", "i", "c", "i_acu", "n", "i", "o", "s">>
    ELSE <<"h", "o", "r", "t", "i", "f", "r", "u", "t", "i", " ", "l", "e", "g", "u", "m", "e", "s", " ", "v", "e", "r", "d", "u", "r", "a", "s", " ", "f", "r", "u", "t", "a", "s">>

\* C8: when no translation term matches, the enhanced query is the query
\* itself if it has a processed-food term or no keyword of the list, and
\* otherwise the query, a space and the hint of the first keyword in list
\* order found in it; "tomate" gives "tomate hortifruti legumes verduras
\* frutas".
C8_CategoryHint ==
    (enh_query # <<>> /\ NoTranslationMatches(enh_query)) =>
        /\ (\/ HasProcessedTerm(enh_query)
            \/ \A k \in 1..Len(HORTIFRUTI_KEYWORDS) :
                    ~Contains(Lower(enh_query), HORTIFRUTI_KEYWORDS[k]))
           => enh_out = enh_query
        /\ \A k \in 1..Len(HORTIFRUTI_KEYWORDS) :
            (/\ ~HasProcessedTerm(enh_query)
             /\ Contains(Lower(enh_query), HORTIFRUTI_KEYWORDS[k])
             /\ \A j \in 1..(k - 1) :
                    ~Contains(Lower(enh_query), HORTIFRUTI_KEYWORDS[j]))
            => enh_out = enh_query \o <<" ">> \o HintOfKeyword(HORTIFRUTI_KEYWORDS[k])
        /\ enh_query = <<"t", "o", "m", "a", "t", "e">> =>
            enh_out = <<"t", "o", "m", "a", "t", "e", " ", "h", "o", "r", "t", "i", "f", "r", "u", "t", "i", " ", "l", "e", "g", "u", "m", "e", "s", " ", "v", "e", "r", "d", "u", "r", "a", "s", " ", "f", "r", "u", "t", "a", "s">>

C8_Witness ==
    /\ enh_query = <<"f", "r", "a", "n", "g", "o", " ", "T", "o", "m", "a", "t", "e">>
    /\ enh_out = <<"f", "r", "a", "n", "g", "o", " ", "T", "o", "m", "a", "t", "e", " ", "h", "o", "r", "t", "i", "f", "r", "u", "t", "i", " ", "l", "e", "g", "u", "m", "e", "s", " ", "v", "e", "r", "d", "u", "r", "a", "s", " ", "f", "r", "u", "t", "a", "s">>

----------------------------------------------------------------------------
(* Claims about the cart and the checkout *)

Finished(w) == fin[w].pc \in {"done", "failed"}

CountIn(seq, x) == Cardinality({i \in 1..Len(seq) : seq[i] = x})

\* How many lines of the payloads submitted for a phone name a product
SubmittedCount(telefone, produto) ==
    Cardinality({ki \in (1..Len(orders)) \X (1..MaxAdds) :
        /\ orders[ki[1]].telefone = telefone
        /\ ki[2] <= Len(orders[ki[1]].itens)
        /\ orders[ki[1]].itens[ki[2]].nome_produto = produto})

\* C1: with add_item_tool and finalizar_pedido_tool running concurrently
\* for one phone, once no finalize is in progress every item that was added
\* to the cart is in a submitted payload or still in the cart.
C1_NoLostItem ==
    (\A w \in Workers : fin[w].pc \in {"idle", "done", "failed"}) =>
        \A p \in Phones, it \in CartItems :
            CountIn(added[p], it)
                <= SubmittedCount(p, it.produto) + CountIn(cart[p], it)

\* C2: finalizar_pedido_tool on an empty cart returns the empty-cart
\* message and calls neither pedidos nor clear_cart nor mark_order_sent.
C2_EmptyCartNoSubmission ==
    \A w \in Workers :
        (Finished(w) /\ fin[w].items = <<>>) =>
            /\ fin[w].pc = "done"
            /\ fin[w].ret = EMPTY_CART_MSG
            /\ fin[w].pedidos_calls = 0
            /\ fin[w].clear_calls = 0
            /\ fin[w].mark_calls = 0
            /\ \A k \in 1..Len(orders) : orders[k].itens # <<>>

C2_Witness ==
    \E w \in Workers :
        /\ fin[w].pc = "done"
        /\ fin[w].items = <<>>
        /\ fin[w].ret = EMPTY_CART_MSG
        /\ cart[fin[w].telefone] = <<>>

\* C3: when the response of the order API does not indicate success, the
\* call makes no clear_cart and no mark_order_sent call and returns the
\* response unchanged; the cart store changes only by an add or by the
\* clear_cart of a call whose response indicated success, and the order-sent
\* marker only by such a call.
C3_FailureLeavesCart ==
    /\ [](\A w \in Workers :
            (Finished(w) /\ fin[w].pedidos_calls > 0 /\ ~IsSuccess(fin[w].result)) =>
                /\ fin[w].pc = "done"
                /\ fin[w].ret = fin[w].result
                /\ fin[w].clear_calls = 0
                /\ fin[w].mark_calls = 0)
    /\ [][\A p \in Phones :
            /\ cart'[p] # cart[p] =>
                \/ \E it \in CartItems : cart'[p] = Append(cart[p], it)
                \/ \E w \in Workers :
                    /\ fin[w].telefone = p
                    /\ fin[w].pedidos_calls > 0
                    /\ IsSuccess(fin[w].result)
                    /\ fin'[w].clear_calls = fin[w].clear_calls + 1
            /\ order_sent'[p] # order_sent[p] =>
                \E w \in Workers :
                    /\ fin[w].telefone = p
                    /\ IsSuccess(fin[w].result)
                    /\ fin'[w].mark_calls = fin[w].mark_calls + 1]_vars

C3_Witness ==
    \E w \in Workers :
        /\ fin[w].pc = "done"
        /\ fin[w].pedidos_calls = 1
        /\ ~IsSuccess(fin[w].result)
        /\ fin[w].ret = fin[w].result
        /\ fin[w].items # <<>>
        /\ cart[fin[w].telefone] = fin[w].items

\* C4: after a response indicating success the call has both cleared the
\* cart and marked the order as sent; once the call has returned or failed,
\* the cart has been cleared if and only if the order has been marked sent.
C4_NoPartialCommit ==
    \A w \in Workers :
        Finished(w) =>
            /\ fin[w].cleared <=> fin[w].marked
            /\ (fin[w].pedidos_calls > 0 /\ IsSuccess(fin[w].result)) =>
                    (fin[w].cleared /\ fin[w].marked)

\* Reading a decimal numeral back: the value of a digit, of a digit string
DigitValue(c) ==
    LET d == <<"0", "1", "2", "3", "4", "5", "6", "7", "8", "9">>
    IN  IF \E i \in 1..10 : d[i] = c
        THEN (CHOOSE i \in 1..10 : d[i] = c) - 1
        ELSE -1

RECURSIVE NumeralValue(_)
NumeralValue(s) ==
    IF s = <<>> THEN 0
    ELSE 10 * NumeralValue(SubSeq(s, 1, Len(s) - 1)) + DigitValue(s[Len(s)])

\* s is digits, a point, and exactly d digits
IsDecimal(s, d) ==
    /\ Len(s) >= d + 2
    /\ s[Len(s) - d] = "."
    /\ \A i \in 1..Len(s) : i # Len(s) - d => DigitValue(s[i]) >= 0

\* the number written by s, in units of 10^-d, for d = 2 or 3
DecimalValue(s, d) ==
    NumeralValue(SubSeq(s, 1, Len(s) - d - 1)) * (IF d = 2 THEN 100 ELSE 1000)
        + NumeralValue(SubSeq(s, Len(s) - d + 1, Len(s)))

Abs(x) == IF x < 0 THEN -x ELSE x

\* obs is  pre + "Peso estimado: " + W + "kg (~R$" + V + "). PESAR ..."
\* with W the weight q to 3 decimals and V the value p*q to 2 decimals
IsWeightNote(obs, pre, q, p) ==
    \E lw \in 5..9, lv \in 4..12 :
        LET a == Len(pre)
            b == a + Len(PESO_PREFIX)
            c == b + lw
            d == c + Len(PESO_MID)
            e == d + lv
            W == SubSeq(obs, b + 1, c)
            V == SubSeq(obs, d + 1, e)
        IN  /\ Len(obs) = e + Len(PESO_SUFFIX)
            /\ SubSeq(obs, 1, a) = pre
            /\ SubSeq(obs, a + 1, b) = PESO_PREFIX
            /\ SubSeq(obs, c + 1, d) = PESO_MID
            /\ SubSeq(obs, e + 1, Len(obs)) = PESO_SUFFIX
            /\ IsDecimal(W, 3)
            /\ 2 * Abs(DecimalValue(W, 3) * MilliPerQ - q) <= MilliPerQ
            /\ IsDecimal(V, 2)
            /\ 2 * Abs(DecimalValue(V, 2) * QScale - p * q) <= QScale

\* C5: the payload line of a weight-tracked item (unidades > 0) has the unit
\* count as quantity and a note giving the weight to 3 decimals and the
\* value preco*quantidade to 2 decimals and asking to re-weigh, after the
\* item's own note if it has one; 0.45 kg, 3 units at 4.00 gives quantity 3
\* and a note with "0.450" and "1.80".
C5_WeightTrackedLine ==
    fmt_in.unidades > 0 =>
        /\ fmt_out.quantidade = fmt_in.unidades
        /\ IsWeightNote(fmt_out.observacao,
                        IF fmt_in.observacao # <<>>
                        THEN fmt_in.observacao \o <<".", " ">> ELSE <<>>,
                        fmt_in.quantidade, fmt_in.preco)
        /\ Contains(fmt_out.observacao, <<"P", "E", "S", "A", "R">>)
        /\ (fmt_in.quantidade = 4500 /\ fmt_in.unidades = 3 /\ fmt_in.preco = 400) =>
            /\ fmt_out.quantidade = 3
            /\ Contains(fmt_out.observacao, <<"0", ".", "4", "5", "0">>)
            /\ Contains(fmt_out.observacao, <<"1", ".", "8", "0">>)

C5_Witness ==
    /\ fmt_in.quantidade = 4500 /\ fmt_in.unidades = 3 /\ fmt_in.preco = 400
    /\ fmt_in.observacao # <<>>
    /\ fmt_out.quantidade = 3
    /\ Contains(fmt_out.observacao, fmt_in.observacao \o <<".", " ", "P", "e", "s", "o">>)

\* C6: the payload line of a unit-tracked item (unidades = 0) has the cart
\* quantity when that is a whole number >= 1 and 1 otherwise, and the item's
\* note unchanged; every quantity submitted is an integer >= 1.
C6_UnitTrackedLine ==
    fmt_in # NoItem =>
        /\ fmt_in.unidades = 0 =>
            /\ fmt_out.quantidade =
                  IF fmt_in.quantidade >= QScale /\ fmt_in.quantidade % QScale = 0
                  THEN fmt_in.quantidade \div QScale
                  ELSE 1
            /\ fmt_out.quantidade * QScale = fmt_in.quantidade \/ fmt_out.quantidade = 1
            /\ fmt_out.observacao = fmt_in.observacao
        /\ fmt_out.quantidade \in Nat
        /\ fmt_out.quantidade >= 1

C6_Witness ==
    /\ fmt_in.unidades = 0
    /\ fmt_in.quantidade = 4500
    /\ fmt_in.observacao # <<>>
    /\ fmt_out.quantidade = 1
    /\ fmt_out.observacao = fmt_in.observacao

----------------------------------------------------------------------------
(* Claims about search_products_vector *)

RECURSIVE ChosenSet(_, _)
\* The result set chosen for an original set and the word sets in order
ChosenSet(original, word_sets) ==
    IF word_sets = <<>> THEN original
    ELSE LET prev == ChosenSet(original, SubSeq(word_sets, 1, Len(word_sets) - 1))
             w == word_sets[Len(word_sets)]
         IN  IF w # <<>> /\ w[1].similarity > prev[1].similarity + 50
             THEN w
             ELSE prev

InRetryLoop ==
    \/ search.pc \in {"word_embed", "word_execute"}
    \/ search.pc = "format" /\ search.word_sets # <<>>

\* C9: in the low-confidence retry the working set starts as the original
\* set and is replaced by a word's set exactly when that set is non-empty
\* and its top score exceeds the best score by more than 0.05; the best
\* score never decreases, the set handed to the formatter is the working set
\* after the last word, and it is a function of the original set and the
\* word sets.
C9_RetryChoice ==
    /\ [](InRetryLoop =>
            /\ search.original # <<>>
            /\ search.best_results = ChosenSet(search.original, search.word_sets)
            /\ search.best_score = search.best_results[1].similarity
            /\ search.best_score >= search.original[1].similarity)
    /\ []((search.pc = "format" /\ search.word_sets # <<>>) =>
            /\ Len(search.word_sets) = Len(search.words)
            /\ search.results = search.best_results)
    /\ [][(InRetryLoop /\ InRetryLoop') =>
            /\ search'.best_score >= search.best_score
            /\ search'.word_sets # search.word_sets =>
                LET w == search'.word_sets[Len(search'.word_sets)]
                IN  /\ search'.word_sets = Append(search.word_sets, w)
                    /\ (w # <<>> /\ w[1].similarity > search.best_score + 50)
                            => search'.best_results = w
                    /\ ~(w # <<>> /\ w[1].similarity > search.best_score + 50)
                            => search'.best_results = search.best_results]_vars

C9_Witness ==
    /\ search.pc = "format"
    /\ Len(search.word_sets) = 2
    /\ search.word_sets[1] # <<>>
    /\ search.word_sets[1][1].similarity = search.original[1].similarity + 50
    /\ search.results = search.word_sets[2]
    /\ search.results # search.original

IsRankedList(ret) ==
    /\ StartsAt(ret, 1, EANS_HEADER)
    /\ StartsAt(ret, Len(EANS_HEADER) + 1, <<"\n", "1", ")", " ">>)
    /\ Len(ret) > Len(EANS_HEADER) + 4

IsNoProductMessage(ret) ==
    \/ ret = <<"N", "e", "n", "h", "u", "m", " ", "p", "r", "o", "d", "u", "t", "o", " ", "e", "n", "c", "o", "n", "t", "r", "a", "d", "o", " ", "c", "o", "m", " ", "e", "s", "s", "e", " ", "t", "e", "r", "m", "o", ".">>
    \/ ret = <<"N", "e", "n", "h", "u", "m", " ", "p", "r", "o", "d", "u", "t", "o", " ", "c", "o", "m", " ", "E", "A", "N", " ", "v", "a_acu", "l", "i", "d", "o", " ", "e", "n", "c", "o", "n", "t", "r", "a", "d", "o", ".">>

NonEmptyQueryReturned ==
    /\ search.pc = "done"
    /\ \E j \in 1..Len(search.raw) : ~IsSpace(search.raw[j])

\* C10 as stated: for every query that is not empty after trimming the
\* search returns a non-empty string that is the ranked list with at least
\* one result line or a message saying that no product was found.
C10_ListOrNoProduct ==
    NonEmptyQueryReturned =>
        /\ search.ret # <<>>
        /\ IsRankedList(search.ret) \/ IsNoProductMessage(search.ret)

\* C10 amended: for every query that is not empty after trimming the search
\* returns a non-empty string: the ranked list with at least one result
\* line, a message saying that no product was found, or an error message
\* starting with "Erro"; never the header alone.
C10_NeverSilent ==
    NonEmptyQueryReturned =>
        /\ search.ret # <<>>
        /\ search.ret # EANS_HEADER
        /\ \/ IsRankedList(search.ret)
           \/ IsNoProductMessage(search.ret)
           \/ StartsAt(search.ret, 1, <<"E", "r", "r", "o">>)

C10_Witness ==
    /\ search.pc = "done"
    /\ search.results # <<>>
    /\ search.ret = NO_VALID_EAN_MSG

----------------------------------------------------------------------------
(* Claims about the guards and the failures of search_products_vector *)

EmptyQueryReturned == search.pc = "done" /\ Strip(search.raw) = <<>>

\* C11 as stated: search_products_vector called with an empty or
\* whitespace-only query returns the empty-query message and makes no
\* embedding call and no index query.
C11_EmptyQuerySentinel ==
    EmptyQueryReturned =>
        /\ search.ret = NO_TERM_MSG
        /\ embed_calls = <<>>
        /\ index_calls = <<>>

\* C11, amended: an empty or whitespace-only query makes no embedding call
\* and no index query; with a connection string configured the call
\* returns the empty-query message, with none configured the
\* connection-string error message.
C11_EmptyQueryNoCalls ==
    EmptyQueryReturned =>
        /\ embed_calls = <<>>
        /\ index_calls = <<>>
        /\ search.raised = "none"
        /\ search.conn_str => search.ret = NO_TERM_MSG
        /\ ~search.conn_str => search.ret = NO_CONN_MSG

C11_Witness ==
    /\ search.pc = "done"
    /\ search.raw = <<" ", " ">>
    /\ search.conn_str
    /\ search.ret = NO_TERM_MSG
    /\ embed_calls = <<>>

\* C12: a failure of the embedding call, of the connection or of a query,
\* in the first query or in the query of any word, never escapes: the call
\* ends by returning the failure message with the text of the exception.
C12_FailureIsMessage ==
    /\ search.pc \in {"idle", "embed", "execute", "word_embed",
                      "word_execute", "format", "done"}
    /\ search.raised # "none" =>
        /\ search.pc = "done"
        /\ \E e \in Exceptions : search.ret = ERROR_PREFIX \o e

C12_Witness ==
    /\ search.pc = "done"
    /\ search.raised = "word_execute"
    /\ search.i = 2
    /\ search.ret = ERROR_PREFIX \o <<"t", "i", "m", "e", "o", "u", "t">>

----------------------------------------------------------------------------
(* Claims about _format_results *)

RECURSIVE LinesOf(_)
\* text.split("\n")
LinesOf(text) ==
    IF \E i \in 1..Len(text) : text[i] = "\n"
    THEN LET i == CHOOSE i \in 1..Len(text) :
                    text[i] = "\n" /\ \A j \in 1..(i - 1) : text[j] # "\n"
         IN  <<SubSeq(text, 1, i - 1)>> \o LinesOf(SubSeq(text, i + 1, Len(text)))
    ELSE <<text>>

\* The lines under the header, <<>> when the text is no list
ResultLines(text) ==
    LET ls == LinesOf(text)
    IN  IF ls[1] = EANS_HEADER THEN SubSeq(ls, 2, Len(ls)) ELSE <<>>

RowEan(i) == _extract_ean_and_name(rows_in[i]).ean
RowNome(i) == _extract_ean_and_name(rows_in[i]).nome

\* row i is the first row with its identifier
IsFirst(i) ==
    RowEan(i) # <<>> /\ \A j \in 1..(i - 1) : RowEan(j) # RowEan(i)

\* the line is "<n>) <ean> - ..." for some number n
LineOfEan(line, ean) ==
    \E n \in 1..(MaxRows + 1) :
        LET head == Digits(n) \o <<")", " ">> \o ean \o <<" ", "-", " ">>
        IN  Len(line) >= Len(head) /\ SubSeq(line, 1, Len(head)) = head

\* the line is "<n>) <ean> - <nome>" for some number n
LineOfRow(line, i) ==
    \E n \in 1..(MaxRows + 1) :
        line = Digits(n) \o <<")", " ">> \o RowEan(i) \o <<" ", "-", " ">>
                \o RowNome(i)

\* the first row whose identifier the line names (0: none)
FirstRowOfLine(line) ==
    IF \E i \in 1..Len(rows_in) : IsFirst(i) /\ LineOfEan(line, RowEan(i))
    THEN CHOOSE i \in 1..Len(rows_in) : IsFirst(i) /\ LineOfEan(line, RowEan(i))
    ELSE 0

\* C13: the output of _format_results names each identifier on at most one
\* line; that line carries the name of the first row with the identifier,
\* and the lines come in the order of first occurrence of the identifiers.
C13_DedupFirstWins ==
    rows_out # <<>> =>
        LET L == ResultLines(rows_out)
        IN  /\ \A i \in 1..Len(rows_in) :
                RowEan(i) # <<>> =>
                    Cardinality({k \in 1..Len(L) : LineOfEan(L[k], RowEan(i))}) <= 1
            /\ \A k \in 1..Len(L) :
                /\ FirstRowOfLine(L[k]) # 0
                /\ LineOfRow(L[k], FirstRowOfLine(L[k]))
            /\ \A k1, k2 \in 1..Len(L) :
                k1 < k2 => FirstRowOfLine(L[k1]) < FirstRowOfLine(L[k2])

C13_Witness ==
    /\ rows_in = <<RowTomateText(351), RowArroz(350), RowTomate(620)>>
    /\ rows_out = EANS_HEADER
            \o <<"\n", "1", ")", " ", "7", "8", "9", " ", "-", " ", "T", "O", "M", "A", "T", "E">>
            \o <<"\n", "2", ")", " ", "1", "2", "3", " ", "-", " ", "A", "R", "R", "O", "Z">>

\* the identifiers the rows yield
DistinctEans == { RowEan(i) : i \in 1..Len(rows_in) } \ { <<>> }

\* C14: when no row yields an identifier the output is the "no valid
\* results" message; otherwise it is the header followed by exactly one
\* line per distinct identifier, numbered 1, 2, ..., k in this order.
C14_SequentialNumbering ==
    rows_out # <<>> =>
        IF DistinctEans = {}
        THEN rows_out = NO_VALID_EAN_MSG
        ELSE LET L == ResultLines(rows_out)
             IN  /\ LinesOf(rows_out)[1] = EANS_HEADER
                 /\ Len(L) = Cardinality(DistinctEans)
                 /\ \A e \in DistinctEans :
                        Cardinality({k \in 1..Len(L) : LineOfEan(L[k], e)}) = 1
                 /\ \A k \in 1..Len(L) :
                        LET head == Digits(k) \o <<")", " ">>
                        IN  /\ Len(L[k]) >= Len(head)
                            /\ SubSeq(L[k], 1, Len(head)) = head

----------------------------------------------------------------------------
(* Claims about the reply of run_agent_langgraph *)

\* the agent returned and no AI message of the result has a usable text
FallbackUsed ==
    /\ turn.pc \in {"save", "done"}
    /\ ~turn.raised
    /\ \A k \in 1..Len(turn.messages) : ~is_usable(turn.messages[k])

\* the tool outputs of the turn, in order
ToolMessages(messages) == SelectSeq(messages, LAMBDA m : m.type = "tool")

ToolOutputs ==
    [k \in 1..Len(ToolMessages(turn.messages)) |->
        ToolMessages(turn.messages)[k].content]

\* no human or AI message of the turn carries a marker
OnlyToolsSignal ==
    \A k \in 1..Len(turn.messages) :
        turn.messages[k].type # "tool" =>
            scan_message(EmptyScan, turn.messages[k].content) = EmptyScan

BatchSuccessSignal(c) ==
    Contains(c, <<"P", "R", "O", "D", "U", "T", "O", "S", "_", "E", "N", "C",
                  "O", "N", "T", "R", "A", "D", "O", "S", ":">>)

SingleSuccessSignal(c) ==
    Contains(c, <<"CHECK", " ", "[", "B", "U", "S", "C", "A", " ", "L", "O",
                  "T", "E", "]", " ", "S", "u", "c", "e", "s", "s", "o">>)

EmptyStockSignal(c) ==
    \/ Contains(c, <<"0", " ", "i", "t", "e", "m">>)
    \/ Contains(c, <<"[", "]">>)
    \/ Contains(c, <<"d", "i", "s", "p", "o", "n", "i_acu", "v", "e", "i",
                     "s", " ", "a", "p", "o_acu", "s", " ", "f", "i", "l",
                     "t", "r", "a", "g", "e", "m">>)

NotFoundSignal(c) ==
    \/ Contains(c, <<"N", "e", "n", "h", "u", "m", " ", "p", "r", "o", "d",
                     "u", "t", "o", " ", "e", "n", "c", "o", "n", "t", "r",
                     "a", "d", "o">>)
    \/ Contains(Lower(c), <<"n", "a_til", "o", " ", "e", "n", "c", "o", "n",
                            "t", "r", "a", "d", "o">>)

AnySuccessSignal ==
    \E k \in 1..Len(ToolOutputs) :
        BatchSuccessSignal(ToolOutputs[k]) \/ SingleSuccessSignal(ToolOutputs[k])

AnyEmptyStockSignal ==
    \E k \in 1..Len(ToolOutputs) : EmptyStockSignal(ToolOutputs[k])

AnyNotFoundSignal ==
    \E k \in 1..Len(ToolOutputs) : NotFoundSignal(ToolOutputs[k])

HasPrefix(text, pre) ==
    Len(text) >= Len(pre) /\ SubSeq(text, 1, Len(pre)) = pre

HasSuffix(text, suf) ==
    Len(text) >= Len(suf)
        /\ SubSeq(text, Len(text) - Len(suf) + 1, Len(text)) = suf

IsSuccessReply(output) ==
    \/ output = MSG.SEM_PRECOS
    \/ HasPrefix(output, MSG.VALORES) /\ HasSuffix(output, MSG.ADICIONAR)

IsEmptyStockReply(output) ==
    \/ output = MSG.SEM_ESTOQUE
    \/ HasPrefix(output, MSG.TEMOS_PREFIX) /\ HasSuffix(output, MSG.TEMOS_SUFFIX)

\* C15: the fallback reply is chosen by the first rule that matches:
\* a batch or single success signal in the tool outputs, then an
\* empty-stock signal, then a not-found signal, then the generic message;
\* with a batch-success and an empty-stock signal the reply is the one of
\* the success branch.
C15_FallbackPriority ==
    (FallbackUsed /\ OnlyToolsSignal) =>
        IF AnySuccessSignal
        THEN IsSuccessReply(turn.output)
        ELSE IF AnyEmptyStockSignal
        THEN IsEmptyStockReply(turn.output)
        ELSE IF AnyNotFoundSignal
        THEN turn.output = MSG.NAO_ACHEI
        ELSE turn.output = MSG.GENERICO

\* the "* name - price" lines of a tool output, without the bullet
PriceLinesOf(c) ==
    LET ls == LinesOf(c)
        kept == SelectSeq(ls, LAMBDA ln :
                    HasPrefix(Strip(ln), <<"BULLET", " ">>)
                        /\ Contains(ln, <<"R", "$">>))
    IN  [k \in 1..Len(kept) |-> Strip(SubSeq(Strip(kept[k]), 3, Len(Strip(kept[k]))))]

\* no price line and no (product, price) pair in the tool outputs
NoPriceCaptured ==
    \A k \in 1..Len(ToolOutputs) :
        /\ PriceLinesOf(ToolOutputs[k]) = <<>>
        /\ ~sucesso_match(ToolOutputs[k]).ok

\* C16: with a success signal in the tool outputs and no price line
\* captured, the fallback reply is "Nao consegui obter os precos agora.
\* Pode repetir?".
C16_NoPricesMessage ==
    (/\ FallbackUsed
     /\ OnlyToolsSignal
     /\ AnySuccessSignal
     /\ NoPriceCaptured)
    => turn.output = MSG.SEM_PRECOS

\* where the text has the literal first (0: nowhere)
IndexOf(text, lit) ==
    IF \E i \in 1..Len(text) : StartsAt(text, i, lit)
    THEN CHOOSE i \in 1..Len(text) :
            StartsAt(text, i, lit) /\ \A j \in 1..(i - 1) : ~StartsAt(text, j, lit)
    ELSE 0

\* the names of the NAO_ENCONTRADOS list of a tool output: what follows
\* the marker on its line, split at the commas
MissingNamesOf(c) ==
    LET a == IndexOf(c, <<"N", "A_TIL", "O", "_", "E", "N", "C", "O", "N",
                          "T", "R", "A", "D", "O", "S", ":">>)
        b == IndexOf(c, <<"N", "A", "O", "_", "E", "N", "C", "O", "N", "T",
                          "R", "A", "D", "O", "S", ":">>)
        i == IF a # 0 THEN a ELSE b
        rest == SubSeq(c, i + 16, RunEnd(c, i + 16, {"\n"}) - 1)
        xs == SplitBy(rest, ",")
    IN  IF i = 0 THEN {}
        ELSE { Strip(xs[k]) : k \in 1..Len(xs) } \ { <<>> }

RECURSIVE ExpectedBullets(_)
\* the bullets the tool outputs call for: the price lines of the batch
\* outputs and the (product, price) pairs of the single-item outputs
ExpectedBullets(outputs) ==
    IF outputs = <<>> THEN <<>>
    ELSE (IF BatchSuccessSignal(Head(outputs)) THEN PriceLinesOf(Head(outputs))
          ELSE <<>>)
         \o (IF SingleSuccessSignal(Head(outputs)) /\ sucesso_match(Head(outputs)).ok
             THEN <<sucesso_match(Head(outputs)).prod \o <<" ", "-", " ">>
                        \o sucesso_match(Head(outputs)).preco>>
             ELSE <<>>)
         \o ExpectedBullets(Tail(outputs))

\* the bullet lines of a reply, without the bullet
BulletsOf(output) ==
    LET kept == SelectSeq(LinesOf(output), LAMBDA ln : HasPrefix(ln, <<"*", " ">>))
    IN  [k \in 1..Len(kept) |-> SubSeq(kept[k], 3, Len(kept[k]))]

\* C17: in the success branch the reply has one bullet for every price
\* line of every batch output and one for every single-item pair, then,
\* whenever a tool output carries a NAO_ENCONTRADOS list, a line naming
\* every product of the list, and it ends with the question whether to add
\* the items to the cart.
C17_SuccessReplyComplete ==
    (/\ FallbackUsed
     /\ OnlyToolsSignal
     /\ HasPrefix(turn.output, MSG.VALORES))
    =>  LET want == ExpectedBullets(ToolOutputs)
            have == BulletsOf(turn.output)
        IN  /\ Len(have) = Len(want)
            /\ \A k \in 1..Len(want) : \E j \in 1..Len(have) : have[j] = want[k]
            /\ \A k \in 1..Len(ToolOutputs) :
                \A name \in MissingNamesOf(ToolOutputs[k]) :
                    \E j \in 1..Len(LinesOf(turn.output)) :
                        /\ HasPrefix(LinesOf(turn.output)[j],
                                <<"N", "a_til", "o", " ", "e", "n", "c", "o",
                                  "n", "t", "r", "e", "i", ":", " ">>)
                        /\ Contains(LinesOf(turn.output)[j], name)
            /\ HasSuffix(turn.output, MSG.ADICIONAR)

\* the text of the last AI message that is no tool call, is not blank and
\* is no structured data; <<>> when there is none
LatestAiText ==
    LET ok(m) == /\ m.type = "ai"
                 /\ ~m.tool_calls
                 /\ Strip(m.content) # <<>>
                 /\ Strip(m.content)[1] \notin {"[", "{"}
        ms == turn.messages
    IN  IF \E k \in 1..Len(ms) : ok(ms[k])
        THEN ms[CHOOSE k \in 1..Len(ms) :
                ok(ms[k]) /\ \A j \in (k + 1)..Len(ms) : ~ok(ms[j])].content
        ELSE <<>>

\* C18: run_agent_langgraph always ends by returning a reply that is not
\* blank, whatever the agent result and whether or not the agent or the
\* history store failed: the latest usable AI text when there is one,
\* otherwise a fallback reply, and the technical-problem message when the
\* agent failed.
C18_AlwaysReplies ==
    /\ turn.pc \in {"idle", "invoke", "save", "done"}
    /\ turn.pc \in {"save", "done"} =>
        /\ Strip(turn.output) # <<>>
        /\ turn.raised => turn.output = MSG.TECNICO
        /\ (~turn.raised /\ LatestAiText # <<>>) => turn.output = LatestAiText
        /\ (~turn.raised /\ LatestAiText = <<>>) =>
                turn.output = fallback_reply(turn.messages)

C18_Witness ==
    /\ turn.pc = "done"
    /\ turn.messages = <<MESSAGES.AiToolCall, MESSAGES.ToolSemEstoque>>
    /\ turn.saved = "failed"
    /\ turn.output = MSG.SEM_ESTOQUE

\* C19: the fallback reply depends only on the tool outputs of the turn: it
\* is the reply the same tool outputs give without the human and the AI
\* messages.
C19_OnlyToolOutputs ==
    FallbackUsed =>
        turn.output = fallback_reply(ToolMessages(turn.messages))

----------------------------------------------------------------------------
(* Claims about the vectorization scripts *)

\* C20: when a run stops before all products are processed, by keyboard
\* interrupt or by aborting after more than 10 errors, the progress file
\* holds the number of products whose batches were committed; the next run
\* starts from that offset and vetorize_products_txt does not delete the
\* table again.
C20_ResumeFromProgress ==
    /\ (/\ vec.pc = "stopped"
        /\ vec.stop \in {"interrupt", "abort"}
        /\ vec.processed < vec.total)
       => vec.progress_file = vec.committed
    /\ (/\ vec.pc \notin {"idle", "stopped"}
        /\ vec.prev_stop \in {"interrupt", "abort"}
        /\ vec.prev_committed > 0
        /\ vec.prev_committed < vec.total)
       => /\ vec.start_offset = vec.prev_committed
          /\ ~vec.deleted

----------------------------------------------------------------------------
(* Claims about the per-word retry of search_products_vector *)

\* The word whose query is the k-th query sent to the index (k >= 2)
WordOfCall(k) == search.words[k - 1]

\* C21: each per-word retry runs the same fused query as the first search
\* with the word in place of the query: the query text sent to the index is
\* the word itself, the query vector is the embedding of that word, and the
\* limit is the limit of the first query (the weights, the sector boost and
\* the RRF constant are literals of the one SQL text both queries use).
C21_WordRetryQuery ==
    \A k \in 2..Len(index_calls) :
        /\ k - 1 <= Len(search.words)
        /\ index_calls[k].query_text = WordOfCall(k)
        /\ index_calls[k].query_embedding
                = <<"[", "embedding of ">> \o WordOfCall(k) \o <<"]">>
        /\ index_calls[k].match_count = index_calls[1].match_count

\* The words a retry goes through, computed from the query as it was passed
WordsOfQuery(q) ==
    SelectSeq(Split(Lower(q)), LAMBDA w : Len(w) >= 3 /\ w \notin STOP_WORDS)

\* The call is over and its first query gave a result set
FirstSetReturned ==
    /\ search.pc = "done"
    /\ Len(index_calls) >= 1
    /\ search.raised \notin {"embed", "execute"}

\* The first result set asks for no retry
NoRetryWanted ==
    \/ search.original = <<>>
    \/ search.original[1].similarity >= 500

\* embedding calls and index queries made after the first of each
FurtherEmbeds == Len(embed_calls) - 1
FurtherQueries == Len(index_calls) - 1

\* C22 as stated: when the first result set is empty or its top score is at
\* least 0.50 the search makes exactly one embedding call and one index
\* query; otherwise it makes exactly one further embedding call and one
\* index query per word of the query that has at least 3 characters and is
\* not a stop word, in query order, and terminates.
C22_RetryExactCalls ==
    FirstSetReturned =>
        /\ NoRetryWanted => (FurtherEmbeds = 0 /\ FurtherQueries = 0)
        /\ ~NoRetryWanted =>
            /\ embed_calls = <<search.enhanced_query>> \o WordsOfQuery(search.raw)
            /\ FurtherQueries = Len(WordsOfQuery(search.raw))

\* C22, amended: the same counts when no call of the retry raises; a call
\* that raises ends the search there, with the words embedded so far a
\* prefix of the word list.  At every moment the calls alternate (a query
\* follows its embedding), and there are never more than one embedding call
\* and one index query per word beyond the first of each.
C22_RetryBounded ==
    /\ Len(index_calls) <= Len(embed_calls)
    /\ Len(embed_calls) <= Len(index_calls) + 1
    /\ search.pc \in {"word_embed", "word_execute"} =>
            search.i \in 1..Len(WordsOfQuery(search.raw))
    /\ embed_calls # <<>> =>
        /\ embed_calls[1] = search.enhanced_query
        /\ FurtherEmbeds <= Len(WordsOfQuery(search.raw))
        /\ \A k \in 1..FurtherEmbeds :
                embed_calls[k + 1] = WordsOfQuery(search.raw)[k]
    /\ FirstSetReturned =>
        /\ NoRetryWanted => (FurtherEmbeds = 0 /\ FurtherQueries = 0)
        /\ (~NoRetryWanted /\ search.raised = "none") =>
            /\ FurtherEmbeds = Len(WordsOfQuery(search.raw))
            /\ FurtherQueries = Len(WordsOfQuery(search.raw))
        /\ search.raised = "word_embed" => FurtherQueries = FurtherEmbeds - 1
        /\ search.raised = "word_execute" => FurtherQueries = FurtherEmbeds

C22_Witness ==
    /\ search.pc = "done"
    /\ search.raised = "none"
    /\ ~NoRetryWanted
    /\ search.raw = <<" ", "S", "u", "c", "o", " ", "d", "e", " ", "c", "a", "j", "u", " ">>
    /\ embed_calls = <<search.enhanced_query, <<"s", "u", "c", "o">>, <<"c", "a", "j", "u">>>>
    /\ Len(index_calls) = 3

----------------------------------------------------------------------------
(* Claims about _extract_ean_and_name *)

\* the first n characters of a text
FirstChars(text, n) == SubSeq(text, 1, IF Len(text) < n THEN Len(text) ELSE n)

\* what the metadata of the extracted row supplies (<<>>: nothing)
MetaIdentifier == GetEither(metadata_dict(ext.row.metadata), "codigo_ean", "ean")
MetaName == GetEither(metadata_dict(ext.row.metadata), "produto", "nome")

\* C23: _extract_ean_and_name prefers the metadata: an identifier the
\* metadata supplies (codigo_ean, else ean) is the identifier returned, a
\* name it supplies (produto, else nome) is the name returned; a pattern
\* match in the text is used only for a field the metadata does not supply,
\* and the first 100 characters of the text are the name only when neither
\* the metadata nor a pattern gives a name.
C23_MetadataPreferred ==
    ext.done =>
        /\ MetaIdentifier # <<>> => ext.ean = MetaIdentifier
        /\ MetaName # <<>> => ext.nome = MetaName
        /\ MetaIdentifier = <<>> => ext.ean = ean_match(ext.row.text)
        /\ (MetaName = <<>> /\ nome_match(ext.row.text) # <<>>)
                => ext.nome = nome_match(ext.row.text)
        /\ (MetaName = <<>> /\ nome_match(ext.row.text) = <<>>)
                => ext.nome = FirstChars(ext.row.text, 100)

----------------------------------------------------------------------------
(* Claims about the result of the low-confidence retry *)

\* The retry loop has run over every word and the call did not fail
RetryLoopOver ==
    /\ search.pc \in {"format", "done"}
    /\ search.raised = "none"
    /\ search.word_sets # <<>>

\* C24: after the retry loop the top score of the result set that is
\* returned is at least the top score of the original set, and at least the
\* highest top score among the original set and the sets of the words
\* minus 0.05.
C24_RetryNeverWorse ==
    RetryLoopOver =>
        /\ search.results # <<>>
        /\ search.results[1].similarity >= search.original[1].similarity
        /\ \A k \in 1..Len(search.word_sets) :
                search.word_sets[k] # <<>> =>
                    search.results[1].similarity
                        >= search.word_sets[k][1].similarity - 50

C24_Witness ==
    /\ search.pc = "format"
    /\ Len(search.word_sets) = 2
    /\ search.original[1].similarity = 300
    /\ search.word_sets[1] # <<>>
    /\ search.word_sets[1][1].similarity = 350
    /\ search.word_sets[2] = <<>>
    /\ search.results = search.original

----------------------------------------------------------------------------
(* Claims about repeated checkout *)

\* C25: an order is not submitted twice for the same cart contents: a
\* finalizar_pedido_tool call that starts after a call for the same phone
\* got a response indicating success and its clear_cart emptied the cart,
\* with no add_item_tool since, returns the empty-cart message and submits
\* nothing to the order API (nor clears the cart, nor marks the order).
C25_NoSecondSubmission ==
    /\ [](\A w \in Workers :
            fin[w].after_success =>
                /\ fin[w].pc = "done"
                /\ fin[w].items = <<>>
                /\ fin[w].ret = EMPTY_CART_MSG
                /\ fin[w].pedidos_calls = 0
                /\ fin[w].clear_calls = 0
                /\ fin[w].mark_calls = 0)
    /\ [][\A w \in Workers :
            (fin'[w] # fin[w] /\ (fin[w].after_success \/ fin'[w].after_success)) =>
                /\ orders' = orders
                /\ cart' = cart
                /\ order_sent' = order_sent]_vars

C25_Witness ==
    \E w \in Workers :
        /\ fin[w].after_success
        /\ fin[w].pc = "done"
        /\ fin[w].ret = EMPTY_CART_MSG
        /\ \E k \in 1..Len(orders) :
            /\ orders[k].telefone = fin[w].telefone
            /\ IsSuccess(orders[k].result)
        /\ order_sent[fin[w].telefone]

====
